---- MODULE Spec2Model ----
(***************************************************************************)
(* Model of the Slack -> Notion task bot (regenrek/boris).                 *)
(*                                                                         *)
(*   SpecStore  InMemoryIdempotencyStore          api/utils/idempotency.ts *)
(*   SpecSig    verifySlackRequestSignature    api/utils/slack-security.ts *)
(*   SpecHttp   fetchWithRetry                           api/utils/http.ts *)
(*   Spec       the two inbound endpoints and the work    api/index.ts     *)
(*              they detach                                                *)
(*   SpecHandlers  processAppMentionAsync, processDirectMessageAsync,      *)
(*              processTaskAsync and the Slack mutations they call         *)
(*   SpecHistory   fetchConversationHistory              api/slack/client.ts *)
(*   SpecClient    slackGet, slackPost and postEphemeralResponse over      *)
(*              fetchWithRetry                        api/slack/client.ts  *)
(*   SpecConfig    one verification, then one request of the client, with *)
(*              the signing secret or the bot token absent or present      *)
(*   SpecConcurrent  two calls of fetchConversationHistory interleaved at  *)
(*              their awaits                          api/slack/client.ts  *)
(*                                                                         *)
(* Strings whose characters matter (headers, signatures) are sequences of  *)
(* one-character strings; opaque strings (keys, ids) are TLA+ strings.     *)
(***************************************************************************)
EXTENDS Integers, Sequences, FiniteSets, TLC

VARIABLES
    \* ---- InMemoryIdempotencyStore -------------------------------------
    ttlMs,        \* this.ttlMs
    maxSize,      \* this.maxSize
    entries,      \* this.entries: Map in insertion order, <<[key, expiresAt]>>
    storeClock,   \* the latest nowMs handed to has/add (Date.now() never goes back)
    storeOp,      \* the last call: [op, key, now, result]
    addedAt,      \* history: key -> nowMs of its latest add, or -1
    evicted,      \* history: keys deleted by the capacity branch since their latest add
    addLog        \* history: the keys of the add calls so far, in order, while they
                  \* are pairwise distinct and at most maxSize+1; Spoiled afterwards

VARIABLES
    \* ---- verifySlackRequestSignature ----------------------------------
    sigIn,        \* the VerifySlackRequestInput being assembled
    sigHist,      \* history: who signed the signature header, and how often it was altered
    sigOut        \* the VerifySlackRequestResult, or Pending before the call

VARIABLES
    \* ---- fetchWithRetry -----------------------------------------------
    httpIn,       \* the call: [retries, retryDelayMs, callerSignal]
    httpPc,       \* "idle", "fetching" (awaiting fetch), "sleeping", "returned", "thrown"
    attempt,      \* the loop variable
    lastError,    \* the variable lastError
    httpTimers,   \* the attempts whose timeout timer is armed
    callerAborted,\* the caller's signal has fired
    httpResult,   \* the response returned or the value thrown
    httpCalls,    \* history: how many times fetch was called
    httpLog,      \* history: the outcome of each finished attempt
    httpSlept     \* history: the delays slept between attempts

VARIABLES
    \* ---- api/index.ts: the endpoints ----------------------------------
    envSigningSecret,  \* process.env.SLACK_SIGNING_SECRET
    deliveries      \* the requests received so far, in order of arrival, each
                    \* with its response and the work detached for it

VARIABLES
    \* ---- the handlers ---------------------------------------------------
    slackBotToken,  \* process.env.SLACK_BOT_TOKEN
    invocation      \* one call of a handler: its input, its locals, where it
                    \* stands, the calls it has made and how its promise settled

VARIABLES
    \* ---- fetchConversationHistory ---------------------------------------
    aggregation     \* one call: its arguments, the token it reads, fileMap,
                    \* result, the requests made and what Slack answered

storeVars == <<ttlMs, maxSize, entries, storeClock, storeOp, addedAt, evicted, addLog>>
sigVars == <<sigIn, sigHist, sigOut>>
httpVars == <<httpIn, httpPc, attempt, lastError, httpTimers, callerAborted,
              httpResult, httpCalls, httpLog, httpSlept>>

epVars == <<envSigningSecret, deliveries>>

handlerVars == <<slackBotToken, invocation>>

VARIABLES
    \* ---- the requests of the Slack client ------------------------------
    slackRequest    \* one call of slackGet, slackPost or postEphemeralResponse:
                    \* who calls, the token read, where it stands, what it returned

VARIABLES
    \* ---- two calls of fetchConversationHistory at once ------------------
    suspended       \* the call that waits at an await while the call held
                    \* in aggregation runs: its arguments and locals

historyVars == <<aggregation>>
concurrentVars == <<suspended>>

clientVars == <<slackRequest>>

vars == <<storeVars, sigVars, httpVars, epVars, handlerVars, historyVars, concurrentVars,
          clientVars>>

\* what the actions of one component leave alone
notStore == <<sigVars, httpVars, epVars, handlerVars, historyVars, concurrentVars,
              clientVars>>
notSig == <<storeVars, httpVars, epVars, handlerVars, historyVars, concurrentVars,
              clientVars>>
notHttp == <<storeVars, sigVars, epVars, handlerVars, historyVars, concurrentVars,
              clientVars>>
notEp == <<storeVars, sigVars, httpVars, handlerVars, historyVars, concurrentVars,
              clientVars>>
notHandler == <<storeVars, sigVars, httpVars, epVars, historyVars, concurrentVars,
              clientVars>>
notAggregations == <<storeVars, sigVars, httpVars, epVars, handlerVars, clientVars>>
notHistory == <<notAggregations, concurrentVars>>
notClient == <<storeVars, sigVars, epVars, handlerVars, historyVars, concurrentVars>>

(***************************************************************************)
(* Bounds of the model.                                                    *)
(***************************************************************************)
MaxTime == 4      \* the clock runs over 0..MaxTime
MaxTtl == 2       \* ttlMs is drawn from 0..MaxTtl
MaxCap == 2       \* maxSize is drawn from 1..MaxCap
DigestLen == 2    \* hex characters of a digest (64 for SHA-256)
Skew == 2         \* clocks and timestamps spread over 0..Skew around each base time
CustomMaxAge == 1 \* the maxAgeSeconds a caller passes instead of the default
MaxRetries == 2   \* options.retries is drawn from 0..MaxRetries
MaxDeliveries == 2 \* requests received by the endpoints
MaxMessages == 3  \* messages in one answer of Slack to a history request

Keys == {"", "a", "b"}

Spoiled == <<"*">>

Range(s) == {s[i] : i \in 1..Len(s)}

(***************************************************************************)
(* Strings as sequences of characters.                                     *)
(***************************************************************************)
Null == <<"<null>">>              \* null / undefined (a header that is not sent)

Alphabet ==
    <<"0", "1", "2", "3", "4", "5", "6", "7", "8", "9",
      "a", "b", "c", "d", "e", "f", "v", "=", ":", "{", "}", "k", "s",
      " ", "-", "+", "A", "E9",
      ".", "U", "M", "B", "D", "E", "C", "R", "N", "O", "!", "T", "X", "x">>

CharCode(c) == CHOOSE i \in 1..Len(Alphabet) : Alphabet[i] = c

DecDigits == <<"0", "1", "2", "3", "4", "5", "6", "7", "8", "9">>
HexDigits == DecDigits \o <<"a", "b", "c", "d", "e", "f">>

IsDigit(c) == c \in Range(DecDigits)
DigitValue(c) == (CHOOSE i \in 1..10 : DecDigits[i] = c) - 1

RECURSIVE Dec(_)
\* String(n) for n >= 0
Dec(n) == IF n < 10 THEN <<DecDigits[n + 1]>> ELSE Dec(n \div 10) \o <<DecDigits[(n % 10) + 1]>>

\* !x for a string-or-null x
Falsy(x) == x = Null \/ x = <<>>

(***************************************************************************)
(* api/utils/slack-security.ts                                             *)
(***************************************************************************)
DEFAULT_MAX_AGE_SECONDS == 60 * 5
SIGNATURE_VERSION == <<"v", "0">>
Undefined == -1                    \* an option that is not passed

NaN == [nan |-> TRUE, val |-> 0]
Num(n) == [nan |-> FALSE, val |-> n]

RECURSIVE DropWhite(_)
DropWhite(s) == IF s # <<>> /\ Head(s) = " " THEN DropWhite(Tail(s)) ELSE s

RECURSIVE DigitPrefix(_)
DigitPrefix(s) ==
    IF s # <<>> /\ IsDigit(Head(s)) THEN <<Head(s)>> \o DigitPrefix(Tail(s)) ELSE <<>>

RECURSIVE DecValue(_)
DecValue(ds) ==
    IF ds = <<>> THEN 0 ELSE DecValue(SubSeq(ds, 1, Len(ds) - 1)) * 10 + DigitValue(ds[Len(ds)])

\* Number.parseInt(s, 10): leading white space, an optional sign, then the longest
\* run of digits; whatever follows is ignored; NaN when there is no digit
ParseInt(s) ==
    LET t == DropWhite(s)
        neg == t # <<>> /\ Head(t) = "-"
        u == IF t # <<>> /\ Head(t) \in {"-", "+"} THEN Tail(t) ELSE t
        ds == DigitPrefix(u)
    IN  IF ds = <<>> THEN NaN
        ELSE Num(IF neg THEN 0 - DecValue(ds) ELSE DecValue(ds))

\* the digests are DigestLen hex characters, so HashSpace of them
HashSpace == 16 ^ DigestLen

RECURSIVE Mix(_, _)
Mix(h, s) ==
    IF s = <<>> THEN h ELSE Mix((h * 31 + CharCode(Head(s))) % HashSpace, Tail(s))

RECURSIVE Hex(_, _)
Hex(n, len) == IF len = 0 THEN <<>> ELSE Hex(n \div 16, len - 1) \o <<HexDigits[(n % 16) + 1]>>

\* createHmac("sha256", key).update(message).digest("hex"): a keyed digest, a
\* deterministic function of key and message written as lower-case hex
HmacSha256Hex(key, message) == Hex(Mix((Mix(7, key) * 17 + 3) % HashSpace, message), DigestLen)

\* Buffer.from(s): UTF-8, one byte per ASCII character, two for U+00E9
Utf8Char(c) == IF c = "E9" THEN <<"C3", "A9">> ELSE <<c>>

RECURSIVE BufferFrom(_)
BufferFrom(s) == IF s = <<>> THEN <<>> ELSE Utf8Char(Head(s)) \o BufferFrom(Tail(s))

constantTimeCompare_LengthOnly(expected, actual) ==
    Len(BufferFrom(expected)) = Len(BufferFrom(actual))

constantTimeCompare(expected, actual) ==
    LET expectedBuffer == BufferFrom(expected)
        actualBuffer == BufferFrom(actual)
    IN  IF Len(expectedBuffer) # Len(actualBuffer)
        THEN FALSE
        ELSE expectedBuffer = actualBuffer           \* timingSafeEqual

buildSlackSignature(rawBody, timestamp, signingSecret) ==
    LET baseString == SIGNATURE_VERSION \o <<":">> \o timestamp \o <<":">> \o rawBody
    IN  SIGNATURE_VERSION \o <<"=">> \o HmacSha256Hex(signingSecret, baseString)

StartsWith(s, prefix) == Len(s) >= Len(prefix) /\ SubSeq(s, 1, Len(prefix)) = prefix

Abs(n) == IF n < 0 THEN 0 - n ELSE n

IsStale_Inclusive(nowSeconds, requestTime, maxAgeSeconds) ==
    Abs(nowSeconds - requestTime) >= maxAgeSeconds

\* Math.abs(nowSeconds - requestTime) > maxAgeSeconds
IsStale(nowSeconds, requestTime, maxAgeSeconds) ==
    Abs(nowSeconds - requestTime) > maxAgeSeconds

OkResult == [ok |-> TRUE]
Rejected(error) == [ok |-> FALSE, status |-> 401, error |-> error]

\* (mutant) the signature is compared before the timestamp is looked at
verifySlackRequestSignature_SignatureFirst(input) ==
    IF Falsy(input.signature) \/ Falsy(input.timestamp) \/ Falsy(input.signingSecret)
    THEN Rejected("Unauthorized")
    ELSE IF \/ ~StartsWith(input.signature, SIGNATURE_VERSION \o <<"=">>)
            \/ ~constantTimeCompare(
                    buildSlackSignature(input.rawBody, input.timestamp, input.signingSecret),
                    input.signature)
    THEN Rejected("Invalid signature")
    ELSE IF ParseInt(input.timestamp).nan
    THEN Rejected("Invalid timestamp")
    ELSE IF IsStale(input.nowMs \div 1000, ParseInt(input.timestamp).val,
                    IF input.maxAgeSeconds = Undefined THEN DEFAULT_MAX_AGE_SECONDS
                    ELSE input.maxAgeSeconds)
    THEN Rejected("Request timeout")
    ELSE OkResult

verifySlackRequestSignature(input) ==
    IF Falsy(input.signature) \/ Falsy(input.timestamp) \/ Falsy(input.signingSecret)
    THEN Rejected("Unauthorized")
    ELSE
    LET requestTime == ParseInt(input.timestamp)
        nowSeconds == input.nowMs \div 1000
        maxAgeSeconds == IF input.maxAgeSeconds = Undefined
                         THEN DEFAULT_MAX_AGE_SECONDS
                         ELSE input.maxAgeSeconds
    IN  IF requestTime.nan                              \* !Number.isFinite
        THEN Rejected("Invalid timestamp")
        ELSE IF IsStale(nowSeconds, requestTime.val, maxAgeSeconds)
        THEN Rejected("Request timeout")
        ELSE IF ~StartsWith(input.signature, SIGNATURE_VERSION \o <<"=">>)
        THEN Rejected("Invalid signature")
        ELSE IF ~constantTimeCompare(
                    buildSlackSignature(input.rawBody, input.timestamp, input.signingSecret),
                    input.signature)
        THEN Rejected("Invalid signature")
        ELSE OkResult

\* ---- the inputs -------------------------------------------------------
Bodies == {<<>>, <<"{", "}">>}
PresentSecrets == {<<"k">>, <<"s", "2">>}
Secrets == PresentSecrets \cup {Null, <<>>}

\* seconds around three base times one default tolerance apart
BaseSeconds(b) == {b * DEFAULT_MAX_AGE_SECONDS + d : d \in 0..Skew}
TimestampSeconds == BaseSeconds(0) \cup BaseSeconds(1) \cup BaseSeconds(2)

TimestampHeaders ==
    {Dec(n) : n \in TimestampSeconds}
    \cup {Null, <<>>, <<"a">>, <<"-">>,
          Dec(DEFAULT_MAX_AGE_SECONDS) \o <<"a">>,
          <<" ">> \o Dec(DEFAULT_MAX_AGE_SECONDS),
          <<"+">> \o Dec(DEFAULT_MAX_AGE_SECONDS),
          <<"-">> \o Dec(1)}

NowMsValues == {n * 1000 + ms : n \in BaseSeconds(1), ms \in {0, 999}}
MaxAgeOptions == {Undefined, CustomMaxAge}

\* what a signature character is changed into
FlipChars == {"0", "1", "f", "v", "=", "A", "E9"}

Pending == [ok |-> FALSE, status |-> 0, error |-> "pending"]

SigInit ==
    /\ sigIn \in [rawBody : Bodies,
                  signature : {Null, <<>>, <<"v", "0", "=", "i", "n", "v">>},
                  timestamp : TimestampHeaders,
                  signingSecret : Secrets,
                  nowMs : NowMsValues,
                  maxAgeSeconds : MaxAgeOptions]
    /\ sigHist = [signedBy |-> Null, altered |-> 0]
    /\ sigOut = Pending

SigIdle ==
    /\ sigIn = [rawBody |-> <<>>, signature |-> Null, timestamp |-> Null,
                signingSecret |-> Null, nowMs |-> 0, maxAgeSeconds |-> Undefined]
    /\ sigHist = [signedBy |-> Null, altered |-> 0]
    /\ sigOut = Pending

\* the sender signs body and timestamp header with the secret it holds
Sign(secret) ==
    /\ sigOut = Pending
    /\ sigHist.signedBy = Null
    /\ ~Falsy(sigIn.timestamp)
    /\ sigIn' = [sigIn EXCEPT
                    !.signature = buildSlackSignature(sigIn.rawBody, sigIn.timestamp, secret)]
    /\ sigHist' = [sigHist EXCEPT !.signedBy = secret]
    /\ UNCHANGED <<sigOut, notSig>>

\* one character of the signature header is replaced by another one
Alter(i, c) ==
    /\ sigOut = Pending
    /\ sigHist.signedBy # Null
    /\ sigHist.altered = 0
    /\ i \in 1..Len(sigIn.signature)
    /\ sigIn.signature[i] # c
    /\ sigIn' = [sigIn EXCEPT !.signature[i] = c]
    /\ sigHist' = [sigHist EXCEPT !.altered = 1]
    /\ UNCHANGED <<sigOut, notSig>>

Verify ==
    /\ sigOut = Pending
    /\ sigOut' = verifySlackRequestSignature(sigIn)
    /\ UNCHANGED <<sigIn, sigHist, notSig>>

SigNext ==
    \/ \E secret \in PresentSecrets : Sign(secret)
    \/ \E i \in 1..(3 + DigestLen), c \in FlipChars : Alter(i, c)
    \/ Verify

(***************************************************************************)
(* api/utils/http.ts                                                       *)
(***************************************************************************)
DEFAULT_RETRY_DELAY_MS == 250

shouldRetryStatus_Any4xx(status) == status >= 400

shouldRetryStatus(status) == status = 429 \/ status >= 500

buildRetryDelay(baseDelayMs, n) == baseDelayMs * 2 ^ n

\* what fetch can reject with
TypeError == [isError |-> TRUE, name |-> "TypeError: fetch failed"]
AbortError == [isError |-> TRUE, name |-> "AbortError"]
PlainObject == [isError |-> FALSE, name |-> "{ message }"]
GenericError == [isError |-> TRUE, name |-> "HTTP request failed after retries"]
NoError == [isError |-> FALSE, name |-> "undefined"]

NetworkFailures == {TypeError, PlainObject}
\* controller.abort(reason?) on the caller's controller
AbortReasons == {[isError |-> TRUE, name |-> "AbortError (caller)"],
                 [isError |-> FALSE, name |-> "reason (caller)"]}

Statuses == {200, 400, 429, 499, 500}

Response(status) == [kind |-> "response", status |-> status, error |-> NoError]
Thrown(error) == [kind |-> "throw", status |-> 0, error |-> error]
NoResult == [kind |-> "none", status |-> 0, error |-> NoError]

FinalThrow_AlwaysGeneric(error) == GenericError

\* throw lastError instanceof Error ? lastError : new Error("HTTP request failed after retries")
FinalThrow(error) == IF error.isError THEN error ELSE GenericError

RetryDelayOf(in) ==
    IF in.retryDelayMs = Undefined THEN DEFAULT_RETRY_DELAY_MS ELSE in.retryDelayMs

HttpIdle ==
    /\ httpIn = [retries |-> 0, retryDelayMs |-> Undefined, callerSignal |-> FALSE]
    /\ httpPc = "idle"
    /\ attempt = 0
    /\ lastError = NoError
    /\ httpTimers = {}
    /\ callerAborted = FALSE
    /\ httpResult = NoResult
    /\ httpCalls = 0
    /\ httpLog = <<>>
    /\ httpSlept = <<>>

HttpInit == HttpIdle

\* (mutant) one timer for the whole call, armed when the first attempt begins
BeginAttempt_OneTimer(n) ==
    /\ attempt' = n
    /\ httpTimers' = IF n = 0 THEN {0} ELSE httpTimers
    /\ httpCalls' = httpCalls + 1
    /\ httpPc' = "fetching"

\* the head of the loop body: a new controller and timer, then fetch is called
BeginAttempt(n) ==
    /\ attempt' = n
    /\ httpTimers' = httpTimers \cup {n}
    /\ httpCalls' = httpCalls + 1
    /\ httpPc' = "fetching"

\* fetchWithRetry(input, init, options) up to its first await
CallFetchWithRetry(retries, retryDelayMs, callerSignal) ==
    /\ httpPc = "idle"
    /\ httpIn' = [retries |-> retries, retryDelayMs |-> retryDelayMs,
                  callerSignal |-> callerSignal]
    /\ BeginAttempt(0)
    /\ UNCHANGED <<lastError, callerAborted, httpResult, httpLog, httpSlept, notHttp>>

\* (mutant) a retryable status on the last attempt ends the call with an error
FetchResolves_ThrowsWhenExhausted(status) ==
    /\ httpPc = "fetching"
    /\ ~callerAborted
    /\ httpTimers' = httpTimers \ {attempt}
    /\ httpLog' = Append(httpLog, Response(status))
    /\ IF ~shouldRetryStatus(status)
       THEN /\ httpPc' = "returned"
            /\ httpResult' = Response(status)
            /\ UNCHANGED httpSlept
       ELSE IF attempt = httpIn.retries
       THEN /\ httpPc' = "thrown"
            /\ httpResult' = Thrown(GenericError)
            /\ UNCHANGED httpSlept
       ELSE /\ httpPc' = "sleeping"
            /\ httpSlept' = Append(httpSlept, buildRetryDelay(RetryDelayOf(httpIn), attempt))
            /\ UNCHANGED httpResult
    /\ UNCHANGED <<httpIn, attempt, lastError, callerAborted, httpCalls, notHttp>>

\* the awaited fetch resolves: lines 45-56
FetchResolves(status) ==
    /\ httpPc = "fetching"
    /\ ~callerAborted
    /\ httpTimers' = httpTimers \ {attempt}                    \* clearTimeout
    /\ httpLog' = Append(httpLog, Response(status))
    /\ IF ~shouldRetryStatus(status) \/ attempt = httpIn.retries
       THEN /\ httpPc' = "returned"
            /\ httpResult' = Response(status)
            /\ UNCHANGED httpSlept
       ELSE /\ httpPc' = "sleeping"
            /\ httpSlept' = Append(httpSlept, buildRetryDelay(RetryDelayOf(httpIn), attempt))
            /\ UNCHANGED httpResult
    /\ UNCHANGED <<httpIn, attempt, lastError, callerAborted, httpCalls, notHttp>>

\* the catch block, lines 57-66, and the throw after the loop, lines 68-70
Catch(error) ==
    /\ httpTimers' = httpTimers \ {attempt}                    \* clearTimeout
    /\ lastError' = error
    /\ httpLog' = Append(httpLog, Thrown(error))
    /\ IF attempt = httpIn.retries
       THEN /\ httpPc' = "thrown"
            /\ httpResult' = Thrown(FinalThrow(error))
            /\ UNCHANGED httpSlept
       ELSE /\ httpPc' = "sleeping"
            /\ httpSlept' = Append(httpSlept, buildRetryDelay(RetryDelayOf(httpIn), attempt))
            /\ UNCHANGED httpResult
    /\ UNCHANGED <<httpIn, attempt, httpCalls, notHttp>>

\* the awaited fetch rejects with a transport failure
FetchRejects(error) ==
    /\ httpPc = "fetching"
    /\ Catch(error)
    /\ UNCHANGED callerAborted

\* the attempt's timer fires: timeoutController.abort(), and fetch rejects
TimeoutFires ==
    /\ httpPc = "fetching"
    /\ attempt \in httpTimers
    /\ Catch(AbortError)
    /\ UNCHANGED callerAborted

\* (mutant) the attempt's fetch is given the timeout's signal alone
CallerAborts_TimeoutSignalOnly(reason) ==
    /\ httpIn.callerSignal
    /\ ~callerAborted
    /\ httpPc \in {"fetching", "sleeping"}
    /\ callerAborted' = TRUE
    /\ UNCHANGED <<httpIn, httpPc, attempt, lastError, httpTimers, httpResult,
                   httpCalls, httpLog, httpSlept, notHttp>>

\* the caller's signal fires; an attempt in flight is aborted with its reason
CallerAborts(reason) ==
    /\ httpIn.callerSignal
    /\ ~callerAborted
    /\ httpPc \in {"fetching", "sleeping"}
    /\ callerAborted' = TRUE
    /\ IF httpPc = "fetching"
       THEN Catch(reason)
       ELSE UNCHANGED <<httpIn, httpPc, attempt, lastError, httpTimers, httpResult,
                        httpCalls, httpLog, httpSlept, notHttp>>

\* fetch called with a signal that has already fired rejects at once
RejectsAborted(reason) ==
    /\ httpPc = "fetching"
    /\ callerAborted
    /\ Catch(reason)
    /\ UNCHANGED callerAborted

\* the sleep ends: attempt += 1 and the loop body starts again
SleepEnds ==
    /\ httpPc = "sleeping"
    /\ BeginAttempt(attempt + 1)
    /\ UNCHANGED <<httpIn, lastError, callerAborted, httpResult, httpLog, httpSlept, notHttp>>

HttpNext ==
    \/ \E retries \in 0..MaxRetries, delay \in {Undefined, 0}, signal \in BOOLEAN :
            CallFetchWithRetry(retries, delay, signal)
    \/ \E status \in Statuses : FetchResolves(status)
    \/ \E error \in NetworkFailures : FetchRejects(error)
    \/ TimeoutFires
    \/ \E reason \in AbortReasons : CallerAborts(reason)
    \/ \E reason \in AbortReasons : RejectsAborted(reason)
    \/ SleepEnds

(***************************************************************************)
(* InMemoryIdempotencyStore                                                *)
(***************************************************************************)
KeysOf(E) == {E[i].key : i \in 1..Len(E)}

\* entries.get(key): the expiresAt stored for key, or -1 for undefined
EntryGet(E, key) ==
    IF key \in KeysOf(E)
    THEN (CHOOSE e \in Range(E) : e.key = key).expiresAt
    ELSE -1

\* entries.delete(key)
EntryDelete(E, key) == SelectSeq(E, LAMBDA e : e.key # key)

\* entries.set(key, value): an existing key keeps its place in the insertion order
EntrySet(E, key, value) ==
    IF key \in KeysOf(E)
    THEN [i \in 1..Len(E) |-> IF E[i].key = key
                              THEN [key |-> key, expiresAt |-> value]
                              ELSE E[i]]
    ELSE Append(E, [key |-> key, expiresAt |-> value])

\* (mutant) an entry is pruned only after its expiry time has passed
StorePrune_AfterExpiry(E, nowMs) == SelectSeq(E, LAMBDA e : ~(e.expiresAt < nowMs))

\* prune(nowMs): delete every entry with expiresAt <= nowMs
StorePrune(E, nowMs) == SelectSeq(E, LAMBDA e : ~(e.expiresAt <= nowMs))

\* has(key, nowMs): <<returned value, entries afterwards>>
StoreHas(E, key, nowMs) ==
    LET P == StorePrune(E, nowMs)
        expiresAt == EntryGet(P, key)
    IN  IF expiresAt = -1 \/ expiresAt = 0          \* !expiresAt
        THEN <<FALSE, P>>
        ELSE IF expiresAt <= nowMs
             THEN <<FALSE, EntryDelete(P, key)>>
             ELSE <<TRUE, P>>

\* the key the capacity branch of add deletes, as a set (empty: nothing deleted)
EvictedByAdd(P, cap) ==
    IF Len(P) >= cap /\ Len(P) > 0 /\ P[1].key # ""    \* if (oldestKey)
    THEN {P[1].key}
    ELSE {}

ExpiryOf_NoTtlEnd(nowMs, ttl) == nowMs + ttl + 1

\* nowMs + this.ttlMs
ExpiryOf(nowMs, ttl) == nowMs + ttl

\* add(key, nowMs): entries afterwards
StoreAdd(E, key, nowMs, ttl, cap) ==
    LET P == StorePrune(E, nowMs)
        ev == EvictedByAdd(P, cap)
        Q == IF ev = {} THEN P ELSE EntryDelete(P, P[1].key)
    IN  EntrySet(Q, key, ExpiryOf(nowMs, ttl))

StoreInit ==
    /\ ttlMs \in 0..MaxTtl
    /\ maxSize \in 1..MaxCap
    /\ entries = <<>>
    /\ storeClock = 0
    /\ storeOp = [op |-> "new", key |-> "", now |-> 0, result |-> FALSE]
    /\ addedAt = [k \in Keys |-> -1]
    /\ evicted = {}
    /\ addLog = <<>>

StoreIdle ==
    /\ ttlMs = 0
    /\ maxSize = 1
    /\ entries = <<>>
    /\ storeClock = 0
    /\ storeOp = [op |-> "new", key |-> "", now |-> 0, result |-> FALSE]
    /\ addedAt = [k \in Keys |-> -1]
    /\ evicted = {}
    /\ addLog = <<>>

Has(key, nowMs) ==
    /\ nowMs >= storeClock
    /\ LET r == StoreHas(entries, key, nowMs)
       IN  /\ entries' = r[2]
           /\ storeOp' = [op |-> "has", key |-> key, now |-> nowMs, result |-> r[1]]
    /\ storeClock' = nowMs
    /\ UNCHANGED <<ttlMs, maxSize, addedAt, evicted, addLog>>
    /\ UNCHANGED notStore

Add(key, nowMs) ==
    /\ nowMs >= storeClock
    /\ entries' = StoreAdd(entries, key, nowMs, ttlMs, maxSize)
    /\ storeOp' = [op |-> "add", key |-> key, now |-> nowMs, result |-> FALSE]
    /\ storeClock' = nowMs
    /\ addedAt' = [addedAt EXCEPT ![key] = nowMs]
    /\ evicted' = (evicted \cup EvictedByAdd(StorePrune(entries, nowMs), maxSize)) \ {key}
    /\ addLog' = IF addLog # Spoiled /\ key \notin Range(addLog) /\ Len(addLog) <= maxSize
                 THEN Append(addLog, key)
                 ELSE Spoiled
    /\ UNCHANGED <<ttlMs, maxSize>>
    /\ UNCHANGED notStore

StoreNext ==
    \/ \E k \in Keys, t \in 0..MaxTime : Has(k, t)
    \/ \E k \in Keys, t \in 0..MaxTime : Add(k, t)

(***************************************************************************)
(* api/index.ts: the inbound endpoints                                     *)
(*                                                                         *)
(* A request body is abbreviated on the wire to two characters: the kind   *)
(* of document and a serial number; the two together are the event_id of an *)
(* event_callback.  JSONparse and URLSearchParams read the documents back; *)
(* the signature is computed over the characters.                          *)
(***************************************************************************)
NoEvent == [type |-> "", channel_type |-> "", text |-> FALSE, bot_id |-> FALSE]
SlackEvent(type, channel_type, bot_id) ==
    [type |-> type, channel_type |-> channel_type, text |-> TRUE, bot_id |-> bot_id]

EventOfKind(k) ==
    CASE k = "M" -> SlackEvent("app_mention", "channel", FALSE)
      [] k = "B" -> SlackEvent("app_mention", "channel", TRUE)
      [] k = "D" -> SlackEvent("message", "im", FALSE)
      [] k = "E" -> SlackEvent("message", "im", TRUE)
      [] k = "C" -> SlackEvent("message", "channel", FALSE)
      [] k = "R" -> SlackEvent("reaction_added", "", FALSE)
      [] OTHER -> NoEvent

\* JSON.parse(rawBody); valid is FALSE where JSON.parse throws a SyntaxError
JSONparse(rawBody) ==
    LET k == rawBody[1]
    IN  [valid |-> k # "!",
         type |-> CASE k = "U" -> "url_verification"
                    [] k = "O" -> "app_rate_limited"
                    [] k = "!" -> ""
                    [] OTHER -> "event_callback",
         hasEvent |-> k \in {"M", "B", "D", "E", "C", "R"},
         event |-> EventOfKind(k),
         event_id |-> IF Len(rawBody) > 1 THEN rawBody ELSE <<>>]

\* the response_url of a form: an https hooks.slack.com URL, the same over http,
\* an https URL of another host, or none (params.get(...) || "")
ResponseUrlOf(u) ==
    CASE u = "0" -> [text |-> "https://hooks.slack.com/commands/1", parses |-> TRUE,
                     protocol |-> "https:", hostname |-> "hooks.slack.com"]
      [] u = "1" -> [text |-> "http://hooks.slack.com/commands/1", parses |-> TRUE,
                     protocol |-> "http:", hostname |-> "hooks.slack.com"]
      [] u = "2" -> [text |-> "https://hooks.slack.com.evil.example/1", parses |-> TRUE,
                     protocol |-> "https:", hostname |-> "hooks.slack.com.evil.example"]
      [] OTHER -> [text |-> "", parses |-> FALSE, protocol |-> "", hostname |-> ""]

\* new URLSearchParams(rawBody), the fields the endpoint reads
URLSearchParams(rawBody) ==
    [command |-> IF rawBody[1] = "T" THEN "/task" ELSE "/other",
     response_url |-> ResponseUrlOf(rawBody[2])]

\* ---- responses --------------------------------------------------------
Json(status, kind, text) == [status |-> status, json |-> TRUE, kind |-> kind, text |-> text]
\* Hono's answer to an exception that escapes a handler
HonoError == [status |-> 500, json |-> FALSE, kind |-> "text", text |-> "Internal Server Error"]

\* ---- detached work ----------------------------------------------------
NoUrl == ResponseUrlOf("3")
NoTask ==
    [kind |-> "none", pc |-> "done", messageLimit |-> 0, result |-> "", inCatch |-> FALSE,
     reactionCalls |-> 0, historyCalls |-> 0, workflowRuns |-> 0, postCalls |-> 0,
     urlRequests |-> 0, response_url |-> NoUrl]

\* fetch(response_url): a request goes out unless the URL does not parse
UrlRequest(url) == IF url.parses THEN 1 ELSE 0

\* processAppMentionAsync(...) up to its first await: reactions.add is on its way
StartAppMention ==
    [NoTask EXCEPT !.kind = "mention", !.pc = "addReaction", !.messageLimit = 20,
                   !.reactionCalls = 1]

\* processDirectMessageAsync(...) up to its first await: the history is asked for
StartDirectMessage ==
    [NoTask EXCEPT !.kind = "dm", !.pc = "history", !.messageLimit = 10,
                   !.historyCalls = 1]

\* processTaskAsync(...) up to its first await: the workflow run is started
StartTask(response_url) ==
    [NoTask EXCEPT !.kind = "task", !.pc = "workflow", !.workflowRuns = 1,
                   !.response_url = response_url]

Handled(reply, task) == [reply |-> reply, task |-> task]

\* `v0=${createHmac("sha256", signingSecret).update(`v0:${timestamp}:${rawBody}`).digest("hex")}`
mySignature(rawBody, timestamp, secret) ==
    LET sigBasestring == <<"v", "0", ":">> \o timestamp \o <<":">> \o rawBody
    IN  <<"v", "0", "=">> \o HmacSha256Hex(secret, sigBasestring)

\* Date.now() while the requests arrive
ServerNowMs == 301 * 1000 + 500

\* the dispatch of an event_callback, inside the handler's try
DispatchEvent(body) ==
    IF ~body.hasEvent
    THEN Handled(Json(500, "error", "Internal server error"), NoTask)  \* TypeError, caught
    ELSE IF body.event.type = "app_mention"
    THEN Handled(Json(200, "ok", ""), StartAppMention)
    ELSE IF /\ body.event.type = "message"
            /\ body.event.channel_type = "im"
            /\ body.event.text
            /\ ~body.event.bot_id
    THEN Handled(Json(200, "ok", ""), StartDirectMessage)
    ELSE Handled(Json(200, "ok", ""), NoTask)

\* app.post("/slack/events", ...)
SlackEvents(req, secret) ==
    LET body == JSONparse(req.rawBody)
    IN  IF ~body.valid
        THEN Handled(HonoError, NoTask)                  \* JSON.parse throws
        ELSE IF Falsy(req.signature) \/ Falsy(req.timestamp) \/ Falsy(secret)
        THEN Handled(Json(401, "error", "Unauthorized"), NoTask)
        ELSE
        LET requestTime == ParseInt(req.timestamp)
            currentTime == ServerNowMs \div 1000
        IN  IF ~requestTime.nan /\ Abs(currentTime - requestTime.val) > 60 * 5
            THEN Handled(Json(401, "error", "Request timeout"), NoTask)
            ELSE IF mySignature(req.rawBody, req.timestamp, secret) # req.signature
            THEN Handled(Json(401, "error", "Invalid signature"), NoTask)
            ELSE IF body.type = "url_verification"
            THEN Handled(Json(200, "challenge", ""), NoTask)
            ELSE IF body.type = "event_callback"
            THEN DispatchEvent(body)
            ELSE Handled(Json(200, "ok", ""), NoTask)

\* app.post("/slack/slash-command", ...)
SlackSlashCommand(req, secret) ==
    IF Falsy(req.signature) \/ Falsy(req.timestamp) \/ Falsy(secret)
    THEN Handled(Json(401, "error", "Unauthorized"), NoTask)
    ELSE IF mySignature(req.rawBody, req.timestamp, secret) # req.signature
    THEN Handled(Json(401, "error", "Invalid signature"), NoTask)
    ELSE
    LET params == URLSearchParams(req.rawBody)
    IN  IF params.command = "/task"
        THEN Handled(Json(200, "ephemeral", "Processing your task"),
                     StartTask(params.response_url))
        ELSE Handled(Json(200, "ephemeral", "Unknown command"), NoTask)

\* ---- the requests -----------------------------------------------------
SlackSecret == <<"k">>          \* the secret Slack signs with
OtherSecret == <<"x">>          \* what a sender without that secret signs with
FreshSeconds == ServerNowMs \div 1000
OldSeconds == FreshSeconds - (60 * 5 + 1)

EventBodies ==
    {<<"U">>, <<"O">>, <<"!">>}
        \cup {<<k, i>> : k \in {"M", "D"}, i \in {"1", "2"}}
        \cup {<<k, "1">> : k \in {"B", "E", "C", "R", "N"}}
SlashBodies == {<<"T", u>> : u \in {"0", "1", "2", "3"}} \cup {<<"X", "0">>}

\* how a request was put together: by Slack just now, by Slack some time ago
\* (a capture sent again), without its signature, without its timestamp, or by
\* a sender that does not hold the secret
Origins == {"slack", "replayed", "unsigned", "untimed", "forged"}

Request(endpoint, rawBody, origin) ==
    LET sentAt == IF origin = "replayed" THEN Dec(OldSeconds) ELSE Dec(FreshSeconds)
        signer == IF origin = "forged" THEN OtherSecret ELSE SlackSecret
    IN  [endpoint |-> endpoint,
         rawBody |-> rawBody,
         timestamp |-> IF origin = "untimed" THEN Null ELSE sentAt,
         signature |-> IF origin = "unsigned" THEN Null
                       ELSE buildSlackSignature(rawBody, sentAt, signer)]

Tasks == {i \in 1..Len(deliveries) : deliveries[i].task.pc # "done"}
TaskOf(i) == deliveries[i].task
\* (mutant) the response is rewritten when the detached work throws
SetTask_ReplyFollows(i, task) ==
    deliveries' = [deliveries EXCEPT ![i].task = task,
                                     ![i].reply = IF task.result = "threw"
                                                  THEN Json(500, "error", "Internal server error")
                                                  ELSE @]

\* the detached work touches nothing of the delivery but its own progress
SetTask(i, task) == deliveries' = [deliveries EXCEPT ![i].task = task]

WorkflowOutcomes == {"created", "note", "failed", "threw"}

EpInit ==
    /\ envSigningSecret \in {SlackSecret, Null}
    /\ deliveries = <<>>

EpIdle ==
    /\ envSigningSecret = Null
    /\ deliveries = <<>>

\* a request arrives and its handler runs to the response
Receive(endpoint, rawBody, origin) ==
    /\ Len(deliveries) < MaxDeliveries
    /\ LET req == Request(endpoint, rawBody, origin)
           h == IF endpoint = "events"
                THEN SlackEvents(req, envSigningSecret)
                ELSE SlackSlashCommand(req, envSigningSecret)
       IN  deliveries' = Append(deliveries,
                [request |-> req, origin |-> origin, reply |-> h.reply, task |-> h.task])
    /\ UNCHANGED envSigningSecret
    /\ UNCHANGED notEp

\* addReaction / removeReaction return (they catch what goes wrong)
ReactionSettles(i) ==
    /\ i \in Tasks
    /\ LET t == TaskOf(i)
       IN  /\ t.pc \in {"addReaction", "removeReaction", "outcomeReaction"}
           /\ SetTask(i, CASE t.pc = "addReaction" ->
                                [t EXCEPT !.pc = "history", !.historyCalls = @ + 1]
                           [] t.pc = "removeReaction" ->
                                [t EXCEPT !.pc = "outcomeReaction", !.reactionCalls = @ + 1]
                           [] OTHER ->
                                [t EXCEPT !.pc = "post", !.postCalls = @ + 1])
    /\ UNCHANGED envSigningSecret
    /\ UNCHANGED notEp

\* fetchConversationHistory returns; the workflow run is created and started
HistorySettles(i) ==
    /\ i \in Tasks
    /\ TaskOf(i).pc = "history"
    /\ SetTask(i, [TaskOf(i) EXCEPT !.pc = "workflow", !.workflowRuns = @ + 1])
    /\ UNCHANGED envSigningSecret
    /\ UNCHANGED notEp

\* run.start(...) returns a result or throws
WorkflowSettles(i, outcome) ==
    /\ i \in Tasks
    /\ LET t == TaskOf(i)
       IN  /\ t.pc = "workflow"
           /\ SetTask(i,
                CASE t.kind = "mention" ->
                        IF outcome = "note" /\ t.messageLimit < 50
                        THEN [t EXCEPT !.pc = "history", !.messageLimit = 50,
                                       !.historyCalls = @ + 1]
                        ELSE [t EXCEPT !.pc = "removeReaction", !.result = outcome,
                                       !.inCatch = (outcome = "threw"),
                                       !.reactionCalls = @ + 1]
                  [] t.kind = "dm" ->
                        [t EXCEPT !.pc = "post", !.result = outcome,
                                  !.inCatch = (outcome = "threw"), !.postCalls = @ + 1]
                  [] OTHER ->
                        [t EXCEPT !.pc = "respond", !.result = outcome,
                                  !.inCatch = (outcome = "threw"),
                                  !.urlRequests = @ + UrlRequest(t.response_url)])
    /\ UNCHANGED envSigningSecret
    /\ UNCHANGED notEp

\* postMessage returns
PostSettles(i) ==
    /\ i \in Tasks
    /\ TaskOf(i).pc = "post"
    /\ SetTask(i, [TaskOf(i) EXCEPT !.pc = "done"])
    /\ UNCHANGED envSigningSecret
    /\ UNCHANGED notEp

\* fetch(response_url) resolves or rejects; a rejection in the try is caught
\* and the error is sent to the same URL
ResponseUrlSettles(i, resolved) ==
    /\ i \in Tasks
    /\ LET t == TaskOf(i)
       IN  /\ t.pc = "respond"
           /\ resolved => t.response_url.parses
           /\ SetTask(i, IF ~resolved /\ ~t.inCatch
                         THEN [t EXCEPT !.inCatch = TRUE,
                                        !.urlRequests = @ + UrlRequest(t.response_url)]
                         ELSE [t EXCEPT !.pc = "done"])
    /\ UNCHANGED envSigningSecret
    /\ UNCHANGED notEp

EpNext ==
    \/ \E b \in EventBodies, o \in Origins : Receive("events", b, o)
    \/ \E b \in SlashBodies, o \in Origins : Receive("slash", b, o)
    \/ \E i \in 1..MaxDeliveries : ReactionSettles(i)
    \/ \E i \in 1..MaxDeliveries : HistorySettles(i)
    \/ \E i \in 1..MaxDeliveries, o \in WorkflowOutcomes : WorkflowSettles(i, o)
    \/ \E i \in 1..MaxDeliveries : PostSettles(i)
    \/ \E i \in 1..MaxDeliveries, r \in BOOLEAN : ResponseUrlSettles(i, r)

(***************************************************************************)
(* api/slack/client.ts (mutations) and the handlers processAppMentionAsync, *)
(* processDirectMessageAsync, processTaskAsync                             *)
(***************************************************************************)
Absent == "<absent>"                \* a member that is not there (undefined)
Messages == {Absent, "", "no database"}
ErrorMessages == {Absent, "", "step failed"}
Truthy(m) == m # Absent /\ m # ""

\* ---- what the workflow hands back -----------------------------------
\* the output of a run; note: its description carries NEED_MORE_CONTEXT_NOTE
Outputs == [success : BOOLEAN, note : BOOLEAN, message : Messages, taskUrl : BOOLEAN]
NoOutput == [success |-> FALSE, note |-> FALSE, message |-> Absent, taskUrl |-> FALSE]
PlainOutput == [success |-> TRUE, note |-> FALSE, message |-> Absent, taskUrl |-> TRUE]

\* a workflow result: its status, the member that carries the output ("none": no
\* result, output or data member) and error.message
WorkflowResult(status, carrier, output, error) ==
    [status |-> status, carrier |-> carrier, output |-> output, error |-> error]

\* results that report a created task; results whose output reports no
\* success; results of a failed run, with and without an output; results that
\* carry the output under output or data
WorkflowResults ==
    {WorkflowResult("success", "result", o, Absent) :
        o \in {x \in Outputs : x.success /\ x.message = Absent}}
    \cup {WorkflowResult("success", "result", o, e) :
        o \in {x \in Outputs : ~x.success /\ ~x.taskUrl}, e \in ErrorMessages}
    \cup {WorkflowResult("failed", "result", o, e) :
        o \in {x \in Outputs : ~x.note /\ ~x.taskUrl /\ (x.success => x.message = Absent)},
        e \in ErrorMessages}
    \cup {WorkflowResult(st, "none", NoOutput, e) :
        st \in {"success", "failed"}, e \in ErrorMessages}
    \cup {WorkflowResult("success", c, PlainOutput, Absent) : c \in {"output", "data"}}

\* result?.result || result?.output || result?.data || result; the result itself
\* has no success, description, message or taskUrl member
getWorkflowOutput(result) ==
    IF result.carrier \in {"result", "output", "data"} THEN result.output ELSE NoOutput

formatWorkflowError_NoFallback(result) ==
    LET output == getWorkflowOutput(result)
    IN  IF output.message # Absent THEN output.message
        ELSE IF result.error # Absent THEN result.error
        ELSE ""

formatWorkflowError(result) ==
    LET output == getWorkflowOutput(result)
    IN  IF Truthy(output.message) THEN output.message
        ELSE IF Truthy(result.error) THEN result.error
        ELSE "Unknown error"

\* what run.start throws: an Error with a message, an Error without, a non-Error
WorkflowThrows ==
    {[isError |-> TRUE, message |-> "boom"], [isError |-> TRUE, message |-> ""],
     [isError |-> FALSE, message |-> Absent]}

\* ---- the texts sent to the user --------------------------------------
Notification(kind, reason) == [kind |-> kind, reason |-> reason]
\* `Task created! View it here: ${output.taskUrl}` or "Task created successfully!"
CreatedMessage(output) == Notification("created", IF output.taskUrl THEN "taskUrl" ELSE "")
\* `Failed to create task: ${formatWorkflowError(workflowResult)}`
FailedMessage(result) == Notification("failed", formatWorkflowError(result))
\* `Error: ${error instanceof Error ? error.message : "An error occurred ..."}`
ErrorMessage(error) ==
    Notification("error", IF error.isError THEN error.message ELSE "An error occurred")

\* ---- Slack mutations --------------------------------------------------
\* how one POST ends: Slack answers ok, answers { ok: false, error }, or
\* fetchJsonWithRetry throws (transport failure, answer that is not JSON)
SlackAnswers ==
    {"ok", "already_reacted", "no_reaction", "message_not_found", "channel_not_found",
     "throws"}

\* slackPost: [ok, error] and the number of requests it made
slackPost(token, answer) ==
    IF Falsy(token)
    THEN [ok |-> FALSE, error |-> "missing_slack_token", requests |-> 0]
    ELSE IF answer = "throws"
    THEN [ok |-> FALSE, error |-> "request_failed", requests |-> 1]
    ELSE IF answer = "ok"
    THEN [ok |-> TRUE, error |-> "", requests |-> 1]
    ELSE [ok |-> FALSE, error |-> answer, requests |-> 1]

IgnoredErrors(method) ==
    CASE method = "reactions.add" -> {"already_reacted"}
      [] method = "reactions.remove" -> {"no_reaction", "message_not_found"}
      [] OTHER -> {}

callSlackMutation_Throws(method, token, answer) ==
    LET response == slackPost(token, answer)
    IN  [threw |-> ~response.ok, reported |-> FALSE, requests |-> response.requests]

\* (mutant) no error of Slack is ignored
callSlackMutation_NoIgnoredErrors(method, token, answer) ==
    LET response == slackPost(token, answer)
    IN  [threw |-> FALSE, reported |-> ~response.ok, requests |-> response.requests]

\* callSlackMutation: returns in every case; a failure that is not ignored is
\* only written to the console
callSlackMutation(method, token, answer) ==
    LET response == slackPost(token, answer)
    IN  [threw |-> FALSE,
         reported |-> ~response.ok /\ response.error \notin IgnoredErrors(method),
         requests |-> response.requests]

\* postEphemeralResponse: fetchWithRetry inside try/catch
postEphemeralResponse(resolved) ==
    [threw |-> FALSE, reported |-> ~resolved, requests |-> 1]

\* ---- files ------------------------------------------------------------
\* a file object: id, name and mimetype ("" or Absent where missing) and, to
\* tell copies of one file apart, the message it was attached to
File(id, name, mimetype, on) == [id |-> id, name |-> name, mimetype |-> mimetype, on |-> on]

\* describeSlackFile: `[File: ${name} (${mimetype})]`
describeSlackFile(file) ==
    [name |-> IF Truthy(file.name) THEN file.name ELSE "Untitled",
     mimetype |-> IF Truthy(file.mimetype) THEN file.mimetype ELSE "unknown type"]

describeFileForContext(file) == describeSlackFile(file)

\* Map keys are strings: an id, or the fallback `${name}:${mimetype}`; the id
\* "untitled:unknown" is the one id that reads like a fallback key
IdKey(id) == IF id = "untitled:unknown" THEN <<"untitled", ":", "unknown">> ELSE <<id>>
FallbackKey(file) ==
    <<IF Truthy(file.name) THEN file.name ELSE "untitled", ":",
      IF Truthy(file.mimetype) THEN file.mimetype ELSE "unknown">>

\* a Map in insertion order, <<[key, value]>>
MapHas(M, key) == \E i \in 1..Len(M) : M[i].key = key
\* (mutant) every set adds an entry
MapSet_AlwaysAppend(M, key, value) == Append(M, [key |-> key, value |-> value])

\* fileMap.set(key, value): an existing key keeps its place and takes the new value
MapSet(M, key, value) ==
    IF MapHas(M, key)
    THEN [i \in 1..Len(M) |-> IF M[i].key = key THEN [key |-> key, value |-> value] ELSE M[i]]
    ELSE Append(M, [key |-> key, value |-> value])
\* Array.from(fileMap.values())
MapValues(M) == [i \in 1..Len(M) |-> M[i].value]

RECURSIVE MergeInto(_, _)
MergeInto(fileMap, files) ==
    IF files = <<>> THEN fileMap
    ELSE LET file == Head(files)
         IN  IF Truthy(file.id)
             THEN MergeInto(MapSet(fileMap, IdKey(file.id), file), Tail(files))
             ELSE IF ~MapHas(fileMap, FallbackKey(file))
             THEN MergeInto(MapSet(fileMap, FallbackKey(file), file), Tail(files))
             ELSE MergeInto(fileMap, Tail(files))

mergeFiles(historyFiles, currentFiles) ==
    MapValues(MergeInto(<<>>, historyFiles \o currentFiles))

\* ---- the context text -------------------------------------------------
\* A text is the sequence of its sections (joined by a blank line).  A history
\* section is `${label} (${count} messages):` and its lines; the current
\* message is the text and the descriptors of its files; the text on its own
\* has no label.
Section(label, count, lines) ==
    [label |-> label, count |-> count, lines |-> lines, files |-> <<>>]
Current(label, text, currentFiles) ==
    [label |-> label, count |-> 0, lines |-> <<text>>,
     files |-> [i \in 1..Len(currentFiles) |-> describeFileForContext(currentFiles[i])]]

buildContextText_AllSections(text, history, currentFiles, extended) ==
    <<Section("Channel conversation history", Len(history.channel), history.channel),
      Section("Thread conversation", Len(history.thread), history.thread),
      Current("Current message", text, currentFiles)>>

buildContextText(text, history, currentFiles, extended) ==
    LET hasHistory == Len(history.thread) > 0 \/ Len(history.channel) > 0
        channelLabel == IF extended THEN "Extended channel conversation history"
                        ELSE "Channel conversation history"
        threadLabel == IF extended THEN "Extended thread conversation"
                       ELSE "Thread conversation"
    IN  IF ~hasHistory
        THEN <<Current("", text, currentFiles)>>
        ELSE (IF Len(history.channel) > 0
              THEN <<Section(channelLabel, Len(history.channel), history.channel)>>
              ELSE <<>>)
             \o (IF Len(history.thread) > 0
                 THEN <<Section(threadLabel, Len(history.thread), history.thread)>>
                 ELSE <<>>)
             \o <<Current("Current message", text, currentFiles)>>

\* ---- one invocation of a handler -------------------------------------
NoWorkflowResult == WorkflowResult("", "none", NoOutput, Absent)
NoCaught == [isError |-> FALSE, message |-> Absent]
NoHistory == [thread |-> <<>>, channel |-> <<>>, files |-> <<>>]
NoCall == [method |-> "", answer |-> "", reported |-> FALSE, requests |-> 0]

\* what fetchConversationHistory hands to a handler
HandlerHistories ==
    {NoHistory,
     [thread |-> <<"t1", "t2", "t3">>, channel |-> <<>>,
      files |-> <<File("F1", "a.png", "image/png", "thread")>>],
     [thread |-> <<"t1">>, channel |-> <<"c1", "c2">>, files |-> <<>>]}

\* the files of the triggering message
InputFiles == {<<>>, <<File("F1", "a.png", "image/png", "current")>>}

Idle ==
    [kind |-> "none", files |-> <<>>, pc |-> "idle", messageLimit |-> 0,
     processingReactionAdded |-> FALSE, history |-> NoHistory,
     workflowResult |-> NoWorkflowResult, error |-> NoCaught, pending |-> FALSE,
     settled |-> "pending", log |-> <<>>, lastCall |-> NoCall, failedIn |-> {}]

TryPcs == {"addProcessing", "history", "workflow", "outcomeReaction", "outcomeMessage"}
CatchPcs == {"catchReaction", "catchMessage"}
PhaseOf(pc) == IF pc \in TryPcs THEN "try" ELSE IF pc \in CatchPcs THEN "catch" ELSE "finally"

\* an entry of the log: a reaction, a message, a history fetch or a workflow run
Call(op, name, limit, text, files) ==
    [op |-> op, name |-> name, limit |-> limit, text |-> text, files |-> files]
NoText == Notification("", "")

\* the promise of the handler settles
Settle(v) ==
    [v EXCEPT !.pc = "end", !.settled = IF v.pending THEN "rejected" ELSE "resolved"]

\* (mutant) the finally block is run only when the try block ended normally
Leave_NotAfterCatch(v) ==
    IF v.kind = "mention" /\ v.processingReactionAdded /\ v.error = NoCaught
    THEN [v EXCEPT !.pc = "removeProcessing"]
    ELSE Settle(v)

\* the try or the catch block is left: processAppMentionAsync has a finally
Leave(v) ==
    IF v.kind = "mention" /\ v.processingReactionAdded
    THEN [v EXCEPT !.pc = "removeProcessing"]
    ELSE Settle(v)

\* an exception at v.pc: caught when in the try block, on its way out otherwise
Raise(v, error) ==
    IF v.pc \in TryPcs
    THEN [v EXCEPT !.error = error,
                   !.pc = IF v.kind = "mention" THEN "catchReaction" ELSE "catchMessage"]
    ELSE IF v.pc \in CatchPcs
    THEN Leave([v EXCEPT !.pending = TRUE])
    ELSE [v EXCEPT !.pc = "end", !.settled = "rejected"]

SlackError == [isError |-> TRUE, message |-> "slack call failed"]

\* a Slack call is made at v.pc and comes back as r
AfterCall(v, call, method, answer, r) ==
    [v EXCEPT !.log = Append(@, call),
              !.lastCall = [method |-> method, answer |-> answer,
                            reported |-> r.reported, requests |-> r.requests],
              !.failedIn = IF answer = "ok" THEN @ ELSE @ \cup {PhaseOf(v.pc)}]

\* await addReaction / removeReaction / postMessage, then `next`
Mutation(v, call, method, token, answer, next) ==
    LET r == callSlackMutation(method, token, answer)
        v1 == AfterCall(v, call, method, answer, r)
    IN  IF r.threw THEN Raise(v1, SlackError) ELSE IF next = "leave" THEN Leave(v1)
        ELSE IF next = "settle" THEN Settle(v1)
        ELSE [v1 EXCEPT !.pc = next]

Succeeded(result) == result.status = "success" /\ getWorkflowOutput(result).success

OutcomeText(result) ==
    IF Succeeded(result) THEN CreatedMessage(getWorkflowOutput(result)) ELSE FailedMessage(result)

\* (mutant) more context is asked for whatever the window was
NeedsMoreContext_AnyWindow(result, messageLimit) ==
    /\ result.status = "success"
    /\ getWorkflowOutput(result).note

\* the first run asks for more context
NeedsMoreContext(result, messageLimit) ==
    /\ result.status = "success"
    /\ getWorkflowOutput(result).note
    /\ messageLimit < 50

BotTokens == {<<"x", "0">>, Null}     \* process.env.SLACK_BOT_TOKEN, set or not

HandlerInit ==
    /\ slackBotToken \in BotTokens
    /\ invocation = Idle

HandlerIdle ==
    /\ slackBotToken = Null
    /\ invocation = Idle

\* processAppMentionAsync(input), processDirectMessageAsync(input) or
\* processTaskAsync(input) is called
Invoke(kind, files) ==
    /\ invocation.pc = "idle"
    /\ kind = "task" => files = <<>>
    /\ invocation' = [Idle EXCEPT !.kind = kind, !.files = files,
                                  !.pc = CASE kind = "mention" -> "addProcessing"
                                           [] kind = "dm" -> "history"
                                           [] OTHER -> "workflow",
                                  !.messageLimit = CASE kind = "mention" -> 20
                                                     [] kind = "dm" -> 10
                                                     [] OTHER -> 0]
    /\ UNCHANGED slackBotToken
    /\ UNCHANGED notHandler

\* await addReaction(channel, ts, "hourglass_flowing_sand")
AddProcessingReaction(answer) ==
    /\ invocation.pc = "addProcessing"
    /\ LET r == callSlackMutation("reactions.add", slackBotToken, answer)
           v1 == AfterCall(invocation,
                           Call("addReaction", "hourglass_flowing_sand", 0, NoText, <<>>),
                           "reactions.add", answer, r)
       IN  invocation' = IF r.threw THEN Raise(v1, SlackError)
                         ELSE [v1 EXCEPT !.processingReactionAdded = TRUE, !.pc = "history"]
    /\ UNCHANGED slackBotToken
    /\ UNCHANGED notHandler

\* await fetchConversationHistory(channel, threadTs, ts, messageLimit) returns
HistoryReturns(history) ==
    /\ invocation.pc = "history"
    /\ invocation' = [invocation EXCEPT
            !.log = Append(@, Call("fetchConversationHistory", "", invocation.messageLimit,
                                   NoText, <<>>)),
            !.history = history,
            !.pc = "workflow"]
    /\ UNCHANGED slackBotToken
    /\ UNCHANGED notHandler

\* ... or throws (a message of the answer is null)
HistoryThrows ==
    /\ invocation.pc = "history"
    /\ invocation' = Raise([invocation EXCEPT
            !.log = Append(@, Call("fetchConversationHistory", "", invocation.messageLimit,
                                   NoText, <<>>))],
            [isError |-> TRUE, message |-> "boom"])
    /\ UNCHANGED slackBotToken
    /\ UNCHANGED notHandler

\* the run that is started at v.pc = "workflow"
WorkflowCall(v) ==
    IF v.kind = "task"
    THEN Call("runWorkflow", "", 0, <<Current("", "task text", <<>>)>>, <<>>)
    ELSE Call("runWorkflow", "", v.messageLimit,
              buildContextText("do it", v.history, v.files, v.messageLimit = 50),
              mergeFiles(v.history.files, v.files))

\* await runWorkflow(...) returns a result
WorkflowReturns(result) ==
    /\ invocation.pc = "workflow"
    /\ LET v1 == [invocation EXCEPT !.log = Append(@, WorkflowCall(invocation)),
                                    !.workflowResult = result]
       IN  invocation' =
             IF v1.kind = "mention"
             THEN IF NeedsMoreContext(result, v1.messageLimit)
                  THEN [v1 EXCEPT !.messageLimit = 50, !.pc = "history"]
                  ELSE [v1 EXCEPT !.pc = "outcomeReaction"]
             ELSE [v1 EXCEPT !.pc = "outcomeMessage"]
    /\ UNCHANGED slackBotToken
    /\ UNCHANGED notHandler

\* ... or throws
WorkflowThrew(error) ==
    /\ invocation.pc = "workflow"
    /\ invocation' = Raise([invocation EXCEPT !.log = Append(@, WorkflowCall(invocation))],
                           error)
    /\ UNCHANGED slackBotToken
    /\ UNCHANGED notHandler

\* await addReaction(channel, ts, "white_check_mark" or "x")
OutcomeReaction(answer) ==
    /\ invocation.pc = "outcomeReaction"
    /\ invocation' = Mutation(invocation,
            Call("addReaction",
                 IF Succeeded(invocation.workflowResult) THEN "white_check_mark" ELSE "x",
                 0, NoText, <<>>),
            "reactions.add", slackBotToken, answer, "outcomeMessage")
    /\ UNCHANGED slackBotToken
    /\ UNCHANGED notHandler

\* await postMessage(...) or await postEphemeralResponse(...) with the outcome
OutcomeMessage(answer) ==
    /\ invocation.pc = "outcomeMessage"
    /\ invocation.kind = "task" => answer \in {"ok", "throws"}
    /\ invocation' =
         IF invocation.kind = "task"
         THEN Leave(AfterCall(invocation,
                        Call("postEphemeralResponse", "", 0,
                             OutcomeText(invocation.workflowResult), <<>>),
                        "response_url", answer, postEphemeralResponse(answer = "ok")))
         ELSE Mutation(invocation,
                Call("postMessage", "", 0, OutcomeText(invocation.workflowResult), <<>>),
                "chat.postMessage", slackBotToken, answer, "leave")
    /\ UNCHANGED slackBotToken
    /\ UNCHANGED notHandler

\* catch: await addReaction(channel, ts, "x")
CatchReaction(answer) ==
    /\ invocation.pc = "catchReaction"
    /\ invocation' = Mutation(invocation, Call("addReaction", "x", 0, NoText, <<>>),
                              "reactions.add", slackBotToken, answer, "catchMessage")
    /\ UNCHANGED slackBotToken
    /\ UNCHANGED notHandler

\* catch: await postMessage(...) or await postEphemeralResponse(...) with the error
CatchMessage(answer) ==
    /\ invocation.pc = "catchMessage"
    /\ invocation.kind = "task" => answer \in {"ok", "throws"}
    /\ invocation' =
         IF invocation.kind = "task"
         THEN Leave(AfterCall(invocation,
                        Call("postEphemeralResponse", "", 0,
                             ErrorMessage(invocation.error), <<>>),
                        "response_url", answer, postEphemeralResponse(answer = "ok")))
         ELSE Mutation(invocation,
                Call("postMessage", "", 0, ErrorMessage(invocation.error), <<>>),
                "chat.postMessage", slackBotToken, answer, "leave")
    /\ UNCHANGED slackBotToken
    /\ UNCHANGED notHandler

\* finally: await removeReaction(channel, ts, "hourglass_flowing_sand")
RemoveProcessing(answer) ==
    /\ invocation.pc = "removeProcessing"
    /\ invocation' = Mutation(invocation,
            Call("removeReaction", "hourglass_flowing_sand", 0, NoText, <<>>),
            "reactions.remove", slackBotToken, answer, "settle")
    /\ UNCHANGED slackBotToken
    /\ UNCHANGED notHandler

HandlerNext ==
    \/ \E k \in {"mention", "dm", "task"}, f \in InputFiles : Invoke(k, f)
    \/ \E a \in SlackAnswers : AddProcessingReaction(a)
    \/ \E h \in HandlerHistories : HistoryReturns(h)
    \/ HistoryThrows
    \/ \E r \in WorkflowResults : WorkflowReturns(r)
    \/ \E e \in WorkflowThrows : WorkflowThrew(e)
    \/ \E a \in SlackAnswers : OutcomeReaction(a)
    \/ \E a \in SlackAnswers : OutcomeMessage(a)
    \/ \E a \in SlackAnswers : CatchReaction(a)
    \/ \E a \in SlackAnswers : CatchMessage(a)
    \/ \E a \in SlackAnswers : RemoveProcessing(a)

(***************************************************************************)
(* api/slack/client.ts: fetchConversationHistory                           *)
(***************************************************************************)
\* a Slack message: ts is a string of digits with one decimal, or "" when absent
Message(ts, text, bot_id, thread_ts, files) ==
    [ts |-> ts, user |-> "U1", text |-> text, bot_id |-> bot_id,
     thread_ts |-> thread_ts, files |-> files]

\* the digits after the point, up to the first decimal
FractionPrefix(s) == IF s # <<>> /\ IsDigit(Head(s)) THEN DigitValue(Head(s)) ELSE 0

\* Number.parseFloat(s) in tenths: the digits, a point and the first decimal
ParseFloat(s) ==
    LET ds == DigitPrefix(s)
        rest == SubSeq(s, Len(ds) + 1, Len(s))
    IN  IF ds = <<>> THEN NaN
        ELSE Num(DecValue(ds) * 10
                 + (IF rest # <<>> /\ Head(rest) = "." THEN FractionPrefix(Tail(rest)) ELSE 0))

\* Number.parseFloat(message.ts || "0")
SortKey(message) == (IF message.ts = <<>> THEN Num(0) ELSE ParseFloat(message.ts)).val

\* the code unit of a character of a ts
CodeUnit(c) == IF c = "." THEN 46 ELSE 48 + DigitValue(c)

RECURSIVE StringLess(_, _)
\* s < t for strings
StringLess(s, t) ==
    IF t = <<>> THEN FALSE
    ELSE IF s = <<>> THEN TRUE
    ELSE IF Head(s) # Head(t) THEN CodeUnit(Head(s)) < CodeUnit(Head(t))
    ELSE StringLess(Tail(s), Tail(t))

\* left sorts after right: by the numbers of their ts, or by the strings
After(left, right, numeric) ==
    IF numeric THEN SortKey(left) > SortKey(right) ELSE StringLess(right.ts, left.ts)

RECURSIVE InsertBy(_, _, _)
\* m put behind every element that is not after it: the sort is stable
InsertBy(sorted, m, numeric) ==
    IF sorted = <<>> THEN <<m>>
    ELSE IF After(Head(sorted), m, numeric) THEN <<m>> \o sorted
    ELSE <<Head(sorted)>> \o InsertBy(Tail(sorted), m, numeric)

RECURSIVE SortBy(_, _)
SortBy(messages, numeric) ==
    IF messages = <<>> THEN <<>>
    ELSE InsertBy(SortBy(SubSeq(messages, 1, Len(messages) - 1), numeric),
                  messages[Len(messages)], numeric)

SortedMessages_AsStrings(messages) == SortBy(messages, FALSE)

\* [...messages].sort((left, right) => parseFloat(left.ts) - parseFloat(right.ts))
SortedMessages(messages) == SortBy(messages, TRUE)

\* formatSlackTimestamp: the time of day of the second the ts falls in
formatSlackTimestamp(ts) ==
    LET timestamp == ParseFloat(ts)
    IN  IF timestamp.nan THEN 0 ELSE (timestamp.val \div 10) % 86400

\* (mutant) the filter without the bot_id test
Survives_KeepsBots(message, currentTs, filters) ==
    /\ ~(filters.excludeCurrentTs /\ message.ts = currentTs)
    /\ ~(filters.excludeThreadMessages /\ message.thread_ts # <<>>)

\* the filter of mapMessagesToContext
Survives(message, currentTs, filters) ==
    /\ ~message.bot_id
    /\ ~(filters.excludeCurrentTs /\ message.ts = currentTs)
    /\ ~(filters.excludeThreadMessages /\ message.thread_ts # <<>>)

\* `[${formatSlackTimestamp(message.ts)}] ${user}: ${text}${fileSuffix}`
Line(message) ==
    [time |-> formatSlackTimestamp(message.ts),
     user |-> IF Truthy(message.user) THEN message.user ELSE "unknown",
     text |-> IF message.text = Absent THEN "" ELSE message.text,
     files |-> [i \in 1..Len(message.files) |-> describeSlackFile(message.files[i])]]

RECURSIVE CollectFiles(_, _)
\* fileMap.set(file.id, file) for the files with an id
CollectFiles(fileMap, files) ==
    IF files = <<>> THEN fileMap
    ELSE CollectFiles(IF Truthy(Head(files).id)
                      THEN MapSet(fileMap, IdKey(Head(files).id), Head(files))
                      ELSE fileMap,
                      Tail(files))

RECURSIVE CollectAll(_, _)
CollectAll(fileMap, messages) ==
    IF messages = <<>> THEN fileMap
    ELSE CollectAll(CollectFiles(fileMap, Head(messages).files), Tail(messages))

Kept(messages, currentTs, filters) ==
    SelectSeq(SortedMessages(messages), LAMBDA m : Survives(m, currentTs, filters))

\* mapMessagesToContext: the lines, and the fileMap after it
mapMessagesToContext(messages, currentTs, fileMap, filters) ==
    LET kept == Kept(messages, currentTs, filters)
    IN  [lines |-> [i \in 1..Len(kept) |-> Line(kept[i])],
         fileMap |-> CollectAll(fileMap, kept)]

\* ---- what Slack answers to a GET -------------------------------------
\* { ok: true, messages }, { ok: true } without messages, { ok: false, error },
\* or fetchJsonWithRetry throws after its retries
GetAnswer(kind, messages) == [kind |-> kind, messages |-> messages]

\* slackGet: the SlackApiResponse and the number of logical requests made
slackGet(token, answer) ==
    IF Falsy(token)
    THEN [ok |-> FALSE, isArray |-> FALSE, messages |-> <<>>, requests |-> 0]
    ELSE IF answer.kind = "throws"
    THEN [ok |-> FALSE, isArray |-> FALSE, messages |-> <<>>, requests |-> 1]
    ELSE [ok |-> answer.kind \in {"ok", "nomessages"},
          isArray |-> answer.kind = "ok",
          messages |-> answer.messages,
          requests |-> 1]

\* ---- the inputs -------------------------------------------------------
CurrentTs == <<"1", "1", ".", "0">>
RootTs == <<"9", ".", "5">>
NoTs == <<>>

F1(on) == File("F1", "a.png", "image/png", on)
F2(on) == File("F2", "b.pdf", "application/pdf", on)
F3(on) == File("", "c.txt", "", on)

\* a top-level message, a reply in its thread, a message of a bot, the
\* triggering message itself
MessageUniverse ==
    {Message(RootTs, "m1", FALSE, NoTs, <<F1("m1")>>),
     Message(<<"1", "0", ".", "2">>, "m2", FALSE, RootTs, <<F1("m2"), F3("m2")>>),
     Message(<<"1", "0", ".", "0">>, "bot", TRUE, NoTs, <<F2("bot"), F1("bot")>>),
     Message(CurrentTs, "do it", FALSE, NoTs, <<>>)}

Injective(s) == \A i, j \in DOMAIN s : i # j => s[i] # s[j]
MessageLists ==
    {s \in UNION {[1..n -> MessageUniverse] : n \in 0..MaxMessages} : Injective(s)}

GetAnswers ==
    {GetAnswer("ok", ms) : ms \in MessageLists}
        \cup {GetAnswer(k, <<>>) : k \in {"nomessages", "notok", "throws"}}

Limits == {1, 10, 20, 50}
ThreadKeys == {NoTs, CurrentTs, RootTs}

\* ---- one call of fetchConversationHistory ----------------------------
EmptyResult == [thread |-> <<>>, channel |-> <<>>, files |-> <<>>]
NoAnswer == GetAnswer("none", <<>>)

NoAggregation ==
    [pc |-> "idle", channel |-> "", threadTs |-> NoTs, currentTs |-> NoTs, limit |-> 0,
     token |-> Null, fileMap |-> <<>>, result |-> EmptyResult, requests |-> <<>>,
     threadAnswer |-> NoAnswer, channelAnswer |-> NoAnswer,
     currentFiles |-> <<>>, allFiles |-> <<>>]

HistoryInit == aggregation = NoAggregation /\ suspended = NoAggregation
HistoryIdle == aggregation = NoAggregation /\ suspended = NoAggregation

\* the request slackGet makes, if it makes one
Requested(requests, response, method, limit) ==
    IF response.requests = 0 THEN requests
    ELSE Append(requests, [method |-> method, limit |-> limit])

Max(a, b) == IF a > b THEN a ELSE b

\* (mutant) one fileMap for the module: a call starts with what the other gathered
CallFetchConversationHistory_SharedMap(channel, threadTs, limit, token) ==
    /\ aggregation.pc = "idle"
    /\ aggregation' = [NoAggregation EXCEPT
            !.channel = channel, !.threadTs = threadTs, !.currentTs = CurrentTs,
            !.limit = limit, !.token = token, !.fileMap = suspended.fileMap,
            !.pc = IF channel = "" THEN "returned"
                   ELSE IF threadTs # NoTs THEN "thread" ELSE "channel"]
    /\ UNCHANGED notHistory

\* fetchConversationHistory(channel, threadTs, currentTs, limit) up to its first await
CallFetchConversationHistory(channel, threadTs, limit, token) ==
    /\ aggregation.pc = "idle"
    /\ aggregation' = [NoAggregation EXCEPT
            !.channel = channel, !.threadTs = threadTs, !.currentTs = CurrentTs,
            !.limit = limit, !.token = token,
            !.pc = IF channel = "" THEN "returned"
                   ELSE IF threadTs # NoTs THEN "thread" ELSE "channel"]
    /\ UNCHANGED notHistory

\* the thread lines are taken from an answer that is ok and has messages
ThreadTaken(answer) ==
    LET threadData == slackGet(aggregation.token, answer)
        mapped == mapMessagesToContext(threadData.messages, aggregation.currentTs,
                                       aggregation.fileMap,
                                       [excludeCurrentTs |-> TRUE,
                                        excludeThreadMessages |-> FALSE])
    IN  [aggregation EXCEPT
            !.threadAnswer = answer,
            !.requests = Requested(aggregation.requests, threadData,
                                   "conversations.replies", aggregation.limit),
            !.result.thread = mapped.lines,
            !.fileMap = mapped.fileMap,
            !.pc = "channel"]

\* (mutant) a thread fetch that fails ends the aggregation
ThreadStep_Abort(answer) ==
    LET threadData == slackGet(aggregation.token, answer)
    IN  IF threadData.ok /\ threadData.isArray
        THEN ThreadTaken(answer)
        ELSE [aggregation EXCEPT
                !.threadAnswer = answer,
                !.requests = Requested(aggregation.requests, threadData,
                                       "conversations.replies", aggregation.limit),
                !.pc = "returned"]

\* await slackGet("conversations.replies", ...) returns
ThreadStep(answer) ==
    LET threadData == slackGet(aggregation.token, answer)
    IN  IF threadData.ok /\ threadData.isArray
        THEN ThreadTaken(answer)
        ELSE [aggregation EXCEPT
                !.threadAnswer = answer,
                !.requests = Requested(aggregation.requests, threadData,
                                       "conversations.replies", aggregation.limit),
                !.pc = "channel"]

ThreadAnswered(answer) ==
    /\ aggregation.pc = "thread"
    /\ aggregation' = ThreadStep(answer)
    /\ UNCHANGED notHistory

\* await slackGet("conversations.history", ...) returns; the files are
\* gathered and the result is returned
ChannelStep(answer) ==
    LET threaded == aggregation.threadTs # NoTs
        limit == IF threaded THEN Max(1, aggregation.limit \div 2) ELSE aggregation.limit
        channelData == slackGet(aggregation.token, answer)
        mapped == mapMessagesToContext(channelData.messages, aggregation.currentTs,
                                       aggregation.fileMap,
                                       [excludeCurrentTs |-> ~threaded,
                                        excludeThreadMessages |-> threaded])
        requests == Requested(aggregation.requests, channelData, "conversations.history",
                              limit)
    IN  IF channelData.ok /\ channelData.isArray
        THEN [aggregation EXCEPT !.channelAnswer = answer, !.requests = requests,
                                 !.result.channel = mapped.lines,
                                 !.result.files = MapValues(mapped.fileMap),
                                 !.fileMap = mapped.fileMap, !.pc = "returned"]
        ELSE [aggregation EXCEPT !.channelAnswer = answer, !.requests = requests,
                                 !.result.files = MapValues(aggregation.fileMap),
                                 !.pc = "returned"]

ChannelAnswered(answer) ==
    /\ aggregation.pc = "channel"
    /\ aggregation' = ChannelStep(answer)
    /\ UNCHANGED notHistory

\* the files of the triggering message, as the handlers pass them to mergeFiles
CurrentFileLists ==
    {<<>>, <<F1("current")>>, <<F3("current"), F1("current"), F3("current again")>>}

\* the caller's allFiles = mergeFiles(history.files, input.files)
Merge(currentFiles) ==
    /\ aggregation.pc = "returned"
    /\ aggregation' = [aggregation EXCEPT
            !.pc = "merged",
            !.currentFiles = currentFiles,
            !.allFiles = mergeFiles(aggregation.result.files, currentFiles)]
    /\ UNCHANGED notHistory

HistoryNext ==
    \/ \E c \in {"C1", ""}, t \in ThreadKeys, l \in Limits, k \in BotTokens :
            CallFetchConversationHistory(c, t, l, k)
    \/ \E a \in GetAnswers : ThreadAnswered(a)
    \/ \E a \in GetAnswers : ChannelAnswered(a)
    \/ \E f \in CurrentFileLists : Merge(f)

(***************************************************************************)
(* api/slack/client.ts: the requests of the Slack client, each one call of *)
(* fetchWithRetry with the options the client passes.                      *)
(***************************************************************************)
Callers == {"slackGet", "slackPost", "postEphemeralResponse"}

\* (mutant) every request of the client retries like a GET
ClientRetries_LikeGet(caller) == 2

\* the retries option the caller passes
ClientRetries(caller) ==
    CASE caller = "slackGet" -> 2
      [] caller = "slackPost" -> 0
      [] OTHER -> 0

\* (mutant) no helper looks at the token
NeedsToken_Never(caller) == FALSE

\* slackGet and slackPost read the token and need it; postEphemeralResponse
\* posts to the response_url without a token
NeedsToken(caller) == caller \in {"slackGet", "slackPost"}

NoRequest == [caller |-> "", token |-> Null, pc |-> "idle", returned |-> ""]

ClientIdle == slackRequest = NoRequest
ClientInit == ClientIdle

\* the call up to its first await: without a token slackGet and slackPost
\* return { ok: false, error: "missing_slack_token" } and no request is made;
\* otherwise fetchWithRetry is called with { timeoutMs, retries } and no signal
ClientCalls(caller, token) ==
    /\ slackRequest.pc = "idle"
    /\ httpPc = "idle"
    /\ IF NeedsToken(caller) /\ Falsy(token)
       THEN /\ slackRequest' = [caller |-> caller, token |-> token, pc |-> "returned",
                                returned |-> "missing_slack_token"]
            /\ UNCHANGED httpVars
       ELSE /\ slackRequest' = [caller |-> caller, token |-> token, pc |-> "awaiting",
                                returned |-> ""]
            /\ httpIn' = [retries |-> ClientRetries(caller), retryDelayMs |-> Undefined,
                          callerSignal |-> FALSE]
            /\ BeginAttempt(0)
            /\ UNCHANGED <<lastError, callerAborted, httpResult, httpLog, httpSlept>>
    /\ UNCHANGED notClient

\* fetchWithRetry has returned or thrown: slackGet and slackPost return the
\* parsed body, or { ok: false, error: "request_failed" } when fetchWithRetry
\* or response.json() threw; postEphemeralResponse returns nothing either way
ClientReturns(parses) ==
    /\ slackRequest.pc = "awaiting"
    /\ httpPc \in {"returned", "thrown"}
    /\ slackRequest' = [slackRequest EXCEPT
            !.pc = "returned",
            !.returned = IF ~NeedsToken(slackRequest.caller) THEN "void"
                         ELSE IF httpPc = "returned" /\ parses THEN "data"
                         ELSE "request_failed"]
    /\ UNCHANGED httpVars
    /\ UNCHANGED notClient

ClientNext ==
    \/ \E caller \in Callers, token \in BotTokens : ClientCalls(caller, token)
    \/ \E status \in Statuses : FetchResolves(status)
    \/ \E error \in NetworkFailures : FetchRejects(error)
    \/ TimeoutFires
    \/ SleepEnds
    \/ \E parses \in BOOLEAN : ClientReturns(parses)

(***************************************************************************)
(* One inbound request and one request of the Slack client in a process    *)
(* whose configuration (signing secret, bot token) may be absent: the      *)
(* request is verified, then a helper of the client is called.             *)
(***************************************************************************)
ConfigInit ==
    /\ sigIn \in [rawBody : {<<"{", "}">>},
                  signature : {Null, <<"v", "0", "=", "i", "n", "v">>},
                  timestamp : {Null, <<"a">>, Dec(DEFAULT_MAX_AGE_SECONDS)},
                  signingSecret : Secrets,
                  nowMs : {DEFAULT_MAX_AGE_SECONDS * 1000},
                  maxAgeSeconds : {Undefined}]
    /\ sigHist = [signedBy |-> Null, altered |-> 0]
    /\ sigOut = Pending
    /\ ClientInit

\* the sender signs with a secret of its own or with the empty key; the
\* helpers of the client are called once the request has been verified
ConfigNext ==
    \/ \E secret \in PresentSecrets \cup {<<>>} : Sign(secret)
    \/ Verify
    \/ sigOut # Pending /\ ClientNext

(***************************************************************************)
(* Two requests at once.  Each call of fetchConversationHistory has its    *)
(* own result and fileMap (api/slack/client.ts, 186-196) and the modules   *)
(* keep no mutable state of their own; at every await the other call may   *)
(* run.  aggregation holds the call that runs, suspended the one waiting.  *)
(***************************************************************************)
MaxConcurrentMessages == 1

ConcurrentChannels == {"C1", "C2"}

\* what Slack holds for each of the two conversations: the same timestamps
\* and the same file ids, told apart by the text and by the copies' tags
MessagesOf(c) ==
    IF c = "C1"
    THEN {Message(RootTs, "C1 m1", FALSE, NoTs, <<F1("C1 m1"), F3("C1 m1")>>),
          Message(<<"1", "0", ".", "2">>, "C1 m2", FALSE, RootTs, <<F2("C1 m2")>>)}
    ELSE {Message(RootTs, "C2 m1", FALSE, NoTs, <<F1("C2 m1")>>),
          Message(<<"1", "0", ".", "2">>, "C2 m2", FALSE, RootTs,
                  <<F2("C2 m2"), F3("C2 m2")>>)}

TriggerTag(c) == IF c = "C1" THEN "C1 current" ELSE "C2 current"

AnswersOf(c) ==
    {GetAnswer("ok", ms) :
        ms \in {s \in UNION {[1..n -> MessagesOf(c)] : n \in 0..MaxConcurrentMessages} :
                    Injective(s)}}

CurrentFilesOf(c) == {<<>>, <<F1(TriggerTag(c)), F3(TriggerTag(c))>>}

\* the running call reaches an await, or has returned, and the other call goes on
Switch ==
    /\ aggregation # suspended
    /\ aggregation' = suspended
    /\ suspended' = aggregation
    /\ UNCHANGED notAggregations

ConcurrentNext ==
    \/ \E c \in ConcurrentChannels \ {suspended.channel}, t \in {NoTs, RootTs} :
            CallFetchConversationHistory(c, t, 20, <<"x", "0">>)
    \/ \E a \in AnswersOf(aggregation.channel) : ThreadAnswered(a)
    \/ \E a \in AnswersOf(aggregation.channel) : ChannelAnswered(a)
    \/ \E f \in CurrentFilesOf(aggregation.channel) : Merge(f)
    \/ Switch

(***************************************************************************)
(* The specifications: one per component, the others standing still.       *)
(***************************************************************************)
InitStore == StoreInit /\ SigIdle /\ HttpIdle /\ EpIdle /\ HandlerIdle /\ HistoryIdle /\ ClientIdle
SpecStore == InitStore /\ [][StoreNext]_vars

InitSig == SigInit /\ StoreIdle /\ HttpIdle /\ EpIdle /\ HandlerIdle /\ HistoryIdle /\ ClientIdle
SpecSig == InitSig /\ [][SigNext]_vars

InitHttp == HttpInit /\ StoreIdle /\ SigIdle /\ EpIdle /\ HandlerIdle /\ HistoryIdle /\ ClientIdle
SpecHttp == InitHttp /\ [][HttpNext]_vars

InitEp == EpInit /\ StoreIdle /\ SigIdle /\ HttpIdle /\ HandlerIdle /\ HistoryIdle /\ ClientIdle
Spec == InitEp /\ [][EpNext]_vars

InitHandlers == HandlerInit /\ StoreIdle /\ SigIdle /\ HttpIdle /\ EpIdle /\ HistoryIdle /\ ClientIdle
SpecHandlers == InitHandlers /\ [][HandlerNext]_vars

InitHistory == HistoryInit /\ StoreIdle /\ SigIdle /\ HttpIdle /\ EpIdle /\ HandlerIdle /\ ClientIdle
SpecHistory == InitHistory /\ [][HistoryNext]_vars

InitClient ==
    ClientInit /\ StoreIdle /\ SigIdle /\ HttpIdle /\ EpIdle /\ HandlerIdle /\ HistoryIdle
SpecClient == InitClient /\ [][ClientNext]_vars

InitConfig == ConfigInit /\ StoreIdle /\ HttpIdle /\ EpIdle /\ HandlerIdle /\ HistoryIdle
SpecConfig == InitConfig /\ [][ConfigNext]_vars

SpecConcurrent == InitHistory /\ [][ConcurrentNext]_vars

(***************************************************************************)
(* Claims about fetchWithRetry (checked under SpecHttp).                   *)
(***************************************************************************)
\* the outcome after which a further attempt is allowed
IsRetryableOutcome(o) ==
    \/ o.kind = "throw"
    \/ o.kind = "response" /\ (o.status = 429 \/ o.status >= 500)

StatusesLogged == [i \in 1..Len(httpLog) |-> httpLog[i].status]

\* C6: a further attempt starts only after a thrown failure or a 429 / >= 500
\* response, there are never more than retries+1 attempts, and the first response
\* with another status is returned at once; so [500, 500, 200] with retries = 2
\* returns the 200 after exactly 3 attempts and a first 400 after exactly 1.
C6_RetriesOnlyRetryable ==
    /\ httpCalls <= httpIn.retries + 1
    /\ \A i \in 1..Len(httpLog) : i < httpCalls => IsRetryableOutcome(httpLog[i])
    /\ \A i \in 1..Len(httpLog) :
          ~IsRetryableOutcome(httpLog[i]) =>
              /\ i = Len(httpLog)
              /\ httpCalls = i
              /\ httpPc = "returned"
              /\ httpResult = [kind |-> "response", status |-> httpLog[i].status,
                               error |-> NoError]
    /\ (httpIn.retries = 2 /\ StatusesLogged = <<500, 500, 200>>) =>
          (httpPc = "returned" /\ httpResult.status = 200 /\ httpCalls = 3)
    /\ (Len(httpLog) >= 1 /\ httpLog[1].kind = "response" /\ httpLog[1].status = 400) =>
          (httpPc = "returned" /\ httpResult.status = 400 /\ httpCalls = 1)

\* C6: responses 500, 500, 200 under retries = 2 ended in the 200 being returned.
C6_Witness ==
    /\ httpIn.retries = 2
    /\ StatusesLogged = <<500, 500, 200>>
    /\ \A i \in 1..Len(httpLog) : httpLog[i].kind = "response"
    /\ httpPc = "returned"
    /\ httpCalls = 3

AllAttemptsThrew ==
    /\ httpPc # "idle"
    /\ Len(httpLog) = httpIn.retries + 1
    /\ \A i \in 1..Len(httpLog) : httpLog[i].kind = "throw"

\* C7: when each of the retries+1 attempts fails at transport level (fetch throws
\* or its timeout aborts it), fetchWithRetry has thrown after exactly retries+1
\* attempts: the last thrown value when it is an Error, else an Error with the
\* message 'HTTP request failed after retries'.
C7_ThrowsAfterExhaustion ==
    AllAttemptsThrew =>
        LET last == httpLog[Len(httpLog)].error
        IN  /\ httpPc = "thrown"
            /\ httpCalls = httpIn.retries + 1
            /\ httpResult.kind = "throw"
            /\ last.isError => httpResult.error = last
            /\ ~last.isError =>
                  httpResult.error =
                      [isError |-> TRUE, name |-> "HTTP request failed after retries"]

\* C7: three attempts failed, the last one aborted by its timeout after a
\* different failure, and that abort error was thrown.
C7_Witness ==
    /\ AllAttemptsThrew
    /\ httpIn.retries = 2
    /\ httpLog[2].error = TypeError
    /\ httpLog[3].error = AbortError
    /\ httpResult = [kind |-> "throw", status |-> 0, error |-> AbortError]

(***************************************************************************)
(* Claims about verifySlackRequestSignature (checked under SpecSig).       *)
(***************************************************************************)
\* a header that is a plain decimal number of seconds
IsSecondsHeader(h) ==
    /\ h # Null
    /\ h # <<>>
    /\ \A i \in 1..Len(h) : IsDigit(h[i])

\* the tolerance in force: 300 s unless the caller passes one
ToleranceInForce == IF sigIn.maxAgeSeconds = Undefined THEN 300 ELSE sigIn.maxAgeSeconds

\* |now - timestamp| in whole seconds, for a plain header
ClockDifference == Abs((sigIn.nowMs \div 1000) - DecValue(sigIn.timestamp))

SignedWithServerSecret ==
    /\ sigHist.signedBy # Null
    /\ sigHist.signedBy = sigIn.signingSecret

\* C2: for every secret, timestamp within the replay window and raw body, the
\* signature built by buildSlackSignature for those inputs verifies ok, and that
\* signature with any one character changed is rejected with 'Invalid signature'.
C2_SignatureRoundTrip ==
    (/\ sigOut # Pending
     /\ SignedWithServerSecret
     /\ IsSecondsHeader(sigIn.timestamp)
     /\ ClockDifference <= ToleranceInForce)
    => /\ sigHist.altered = 0 => sigOut = [ok |-> TRUE]
       /\ sigHist.altered = 1 =>
              sigOut = [ok |-> FALSE, status |-> 401, error |-> "Invalid signature"]

\* C2: a correctly signed request whose digest had one character changed was
\* verified and rejected.
C2_Witness ==
    /\ sigOut = [ok |-> FALSE, status |-> 401, error |-> "Invalid signature"]
    /\ SignedWithServerSecret
    /\ sigHist.altered = 1
    /\ StartsWith(sigIn.signature, <<"v", "0", "=">>)
    /\ IsSecondsHeader(sigIn.timestamp)
    /\ ClockDifference <= ToleranceInForce

\* C3: a request (signature, timestamp and secret present) whose timestamp is
\* more than the tolerance away from now, in the past or the future, is rejected
\* with 'Request timeout' even when correctly signed; at exactly the tolerance
\* it is not rejected as stale.
C3_StaleRejected ==
    (/\ sigOut # Pending
     /\ ~Falsy(sigIn.signature)
     /\ ~Falsy(sigIn.signingSecret)
     /\ IsSecondsHeader(sigIn.timestamp))
    => /\ ClockDifference > ToleranceInForce =>
              sigOut = [ok |-> FALSE, status |-> 401, error |-> "Request timeout"]
       /\ ClockDifference = ToleranceInForce =>
              (sigOut.ok \/ sigOut.error # "Request timeout")

\* C3: a correctly signed, unaltered request dated in the future beyond the
\* tolerance was rejected as stale.
C3_Witness ==
    /\ sigOut = [ok |-> FALSE, status |-> 401, error |-> "Request timeout"]
    /\ SignedWithServerSecret
    /\ sigHist.altered = 0
    /\ IsSecondsHeader(sigIn.timestamp)
    /\ DecValue(sigIn.timestamp) > (sigIn.nowMs \div 1000) + ToleranceInForce

(***************************************************************************)
(* Claims about InMemoryIdempotencyStore (checked under SpecStore).        *)
(***************************************************************************)

\* C4: after add(K, t0) on a store with ttl T, and unless K was evicted for
\* capacity in between, has(K, t) returns TRUE for t0 <= t < t0+T and FALSE for
\* t >= t0+T; has(K, t) is FALSE for a key that was never added.
C4_HasUntilTtl ==
    storeOp.op = "has" =>
        LET K == storeOp.key
            t == storeOp.now
            t0 == addedAt[K]
        IN  /\ t0 = -1 => storeOp.result = FALSE
            /\ (t0 # -1 /\ K \notin evicted) => (storeOp.result <=> t < t0 + ttlMs)

\* C4: has(K, t) answered TRUE strictly after add(K, t0), another key having
\* been added in between.
C4_Witness ==
    /\ storeOp.op = "has"
    /\ storeOp.result = TRUE
    /\ storeOp.now > addedAt[storeOp.key]
    /\ maxSize = 2
    /\ entries[1].key = storeOp.key
    /\ KeysOf(entries) = {"a", "b"}

\* C5: from an empty store of capacity maxSize, after maxSize+1 adds of pairwise
\* distinct keys, all within the ttl of the first, exactly the first-inserted key
\* is absent and the other maxSize keys are present.
C5_EvictsExactlyFirstInserted ==
    (/\ addLog # Spoiled
     /\ Len(addLog) = maxSize + 1
     /\ storeClock < addedAt[addLog[1]] + ttlMs)
    => KeysOf(entries) = Range(addLog) \ {addLog[1]}

(***************************************************************************)
(* Claims about the endpoints (Spec)                                       *)
(***************************************************************************)
Received == DOMAIN deliveries

\* authentic: signed by Slack, sent within the replay window, to a server
\* that holds Slack's secret
Authenticated(d) == d.origin = "slack" /\ envSigningSecret = SlackSecret

PipelineStarted(d) == d.task.kind # "none"

SideEffects(d) ==
    d.task.reactionCalls + d.task.historyCalls + d.task.workflowRuns
        + d.task.postCalls + d.task.urlRequests

IsEventDelivery(d) ==
    /\ d.request.endpoint = "events"
    /\ JSONparse(d.request.rawBody).type = "event_callback"

SameEventId(d, e) ==
    JSONparse(d.request.rawBody).event_id = JSONparse(e.request.rawBody).event_id

\* C1: of two authenticated deliveries that carry the same event id, the first
\* starts the processing pipeline at most once and the second, the duplicate,
\* gets the success acknowledgement and starts nothing and has no side effect.
C1_DuplicateStartsNothing ==
    \A i \in Received, j \in Received :
        (/\ i < j
         /\ IsEventDelivery(deliveries[i]) /\ IsEventDelivery(deliveries[j])
         /\ Authenticated(deliveries[i]) /\ Authenticated(deliveries[j])
         /\ SameEventId(deliveries[i], deliveries[j]))
        => /\ deliveries[j].reply = Json(200, "ok", "")
           /\ ~PipelineStarted(deliveries[j])
           /\ SideEffects(deliveries[j]) = 0

\* C8: on both endpoints a request that fails authentication (no signature, no
\* timestamp, no secret configured, a signature that does not match, a timestamp
\* outside the replay window) is answered 401 with a JSON error body and no
\* processing is started for it.
C8_AuthFailureIs401 ==
    \A i \in Received :
        ~Authenticated(deliveries[i])
        => /\ deliveries[i].reply.status = 401
           /\ deliveries[i].reply.json
           /\ deliveries[i].reply.kind = "error"
           /\ ~PipelineStarted(deliveries[i])

\* C9: an authenticated request to the events endpoint that carries a JSON
\* payload is answered 200, whatever its payload type, its event type and its
\* event's contents.
C9_AuthenticatedEventsGet200 ==
    \A i \in Received :
        (/\ deliveries[i].request.endpoint = "events"
         /\ Authenticated(deliveries[i])
         /\ JSONparse(deliveries[i].request.rawBody).valid)
        => deliveries[i].reply.status = 200

IsSlackResponseUrl(url) ==
    url.parses /\ url.protocol = "https:" /\ url.hostname = "hooks.slack.com"

\* C10: an authenticated /task command whose response_url is not an https URL
\* of host hooks.slack.com is answered 400, no request is sent to that URL and
\* the pipeline is not run.
C10_BadResponseUrlRejected ==
    \A i \in Received :
        LET d == deliveries[i]
            params == URLSearchParams(d.request.rawBody)
        IN  (/\ d.request.endpoint = "slash"
             /\ Authenticated(d)
             /\ params.command = "/task"
             /\ ~IsSlackResponseUrl(params.response_url))
            => /\ d.reply.status = 400
               /\ d.task.urlRequests = 0
               /\ d.task.workflowRuns = 0

AckOf(kind) ==
    IF kind = "task"
    THEN Json(200, "ephemeral", "Processing your task")
    ELSE Json(200, "ok", "")

\* C11: the acknowledgement of an authenticated mention, direct message or /task
\* is there as soon as the work is detached, before any history fetch, workflow
\* run or notification has returned, and it is the same 200 body at every later
\* point, whether the detached work succeeds, returns a failure or throws.
C11_AckIndependentOfDetachedWork ==
    \A i \in Received :
        PipelineStarted(deliveries[i]) => deliveries[i].reply = AckOf(deliveries[i].task.kind)

\* the three kinds of detached work, one not yet past its first await when the
\* acknowledgement is out, one ended by a throw and one by a failure result
C11_Witness ==
    /\ \E i \in Received :
            /\ deliveries[i].task.kind = "mention" /\ deliveries[i].task.pc = "addReaction"
            /\ deliveries[i].reply = AckOf("mention")
    /\ \E i \in Received :
            /\ deliveries[i].task.kind = "task" /\ deliveries[i].task.pc = "done"
            /\ deliveries[i].task.result = "threw"
            /\ deliveries[i].reply = AckOf("task")

(***************************************************************************)
(* Claims about the handlers (SpecHandlers)                                *)
(***************************************************************************)
\* C12: the promise of processAppMentionAsync, processDirectMessageAsync and
\* processTaskAsync is never rejected: whatever the workflow does (created,
\* failure result, throw) and whichever Slack calls fail, in the processing or
\* while the error is reported, an invocation that ends has resolved.
C12_HandlersNeverReject ==
    /\ invocation.settled # "rejected"
    /\ invocation.pc = "end" => invocation.settled = "resolved"

\* a mention whose workflow threw and whose Slack calls failed both while the
\* error was reported and while the hourglass was removed, resolved all the same
C12_Witness ==
    /\ invocation.kind = "mention"
    /\ invocation.pc = "end"
    /\ invocation.settled = "resolved"
    /\ invocation.error \in WorkflowThrows
    /\ {"catch", "finally"} \subseteq invocation.failedIn

(***************************************************************************)
(* Claims about fetchConversationHistory (SpecHistory)                     *)
(***************************************************************************)
Returned == aggregation.pc \in {"returned", "merged"} /\ aggregation.channel # ""
Threaded == aggregation.threadTs # NoTs

\* the fetch of a source failed: no token, a transport failure after the
\* retries, or an answer of Slack that is not ok
FetchFailed(answer) == Falsy(aggregation.token) \/ answer.kind \in {"throws", "notok"}
FetchSucceeded(answer) == ~Falsy(aggregation.token) /\ answer.kind = "ok"

\* what a source gives when it is the only one
Alone(answer, filters) ==
    mapMessagesToContext(answer.messages, aggregation.currentTs, <<>>, filters)
ThreadFilters == [excludeCurrentTs |-> TRUE, excludeThreadMessages |-> FALSE]
ChannelFilters == [excludeCurrentTs |-> ~Threaded, excludeThreadMessages |-> Threaded]

\* C13: fetchConversationHistory always returns; when the thread fetch failed
\* and the channel fetch succeeded the result has no thread line and exactly the
\* channel lines and files of the channel answer; when the channel fetch failed
\* and the thread fetch succeeded it has no channel line and exactly the thread
\* lines and files of the thread answer.
C13_FailedSourceIsEmptyBatch ==
    /\ aggregation.pc \in {"idle", "thread", "channel", "returned", "merged"}
    \* a failed thread fetch does not keep the channel from being asked
    /\ Returned => aggregation.channelAnswer # NoAnswer
    /\ (Returned /\ Threaded /\ FetchFailed(aggregation.threadAnswer)
            /\ FetchSucceeded(aggregation.channelAnswer))
        => /\ aggregation.result.thread = <<>>
           /\ aggregation.result.channel = Alone(aggregation.channelAnswer, ChannelFilters).lines
           /\ aggregation.result.files
                = MapValues(Alone(aggregation.channelAnswer, ChannelFilters).fileMap)
    /\ (Returned /\ Threaded /\ FetchSucceeded(aggregation.threadAnswer)
            /\ FetchFailed(aggregation.channelAnswer))
        => /\ aggregation.result.channel = <<>>
           /\ aggregation.result.thread = Alone(aggregation.threadAnswer, ThreadFilters).lines
           /\ aggregation.result.files
                = MapValues(Alone(aggregation.threadAnswer, ThreadFilters).fileMap)

\* the thread fetch failed in transport and the channel lines and files are there
C13_Witness ==
    /\ Returned /\ Threaded
    /\ aggregation.threadAnswer.kind = "throws"
    /\ FetchSucceeded(aggregation.channelAnswer)
    /\ Len(aggregation.result.channel) > 0
    /\ Len(aggregation.result.files) > 0

Runs == SelectSeq(invocation.log, LAMBDA c : c.op = "runWorkflow")
Fetches == SelectSeq(invocation.log, LAMBDA c : c.op = "fetchConversationHistory")
LabelsOf(text) == {text[i].label : i \in 1..Len(text)}
ExtendedLabels ==
    {"Extended channel conversation history", "Extended thread conversation",
     "Current message", ""}
PlainLabels == {"Channel conversation history", "Thread conversation", "Current message", ""}

\* C14: one app mention runs the workflow at most twice and aggregates the
\* history at most twice; the window goes from 20 to 50 only in a step in which
\* the run just returned succeeded with the insufficient-context note in its
\* description; the second run has window 50 and 'Extended' labels, the first
\* window 20 and the plain labels; there is no third run.
C14_AtMostOneEscalation ==
    /\ [](invocation.kind = "mention"
            => /\ Len(Runs) <= 2 /\ Len(Fetches) <= 2
               /\ Len(Runs) >= 1
                    => Runs[1].limit = 20 /\ LabelsOf(Runs[1].text) \subseteq PlainLabels
               /\ Len(Fetches) >= 1 => Fetches[1].limit = 20
               /\ Len(Fetches) = 2 => Fetches[2].limit = 50
               /\ Len(Runs) = 2
                    => Runs[2].limit = 50 /\ LabelsOf(Runs[2].text) \subseteq ExtendedLabels)
    /\ [][(invocation.kind = "mention" /\ invocation'.messageLimit # invocation.messageLimit)
            => /\ invocation.messageLimit = 20 /\ invocation'.messageLimit = 50
               /\ Len(Fetches) = 1
               /\ invocation'.workflowResult.status = "success"
               /\ getWorkflowOutput(invocation'.workflowResult).note]_vars

\* a mention that ended after two runs, the second over an extended history
\* and with the note in its description again
C14_Witness ==
    /\ invocation.kind = "mention" /\ invocation.pc = "end"
    /\ Len(Runs) = 2 /\ Len(Fetches) = 2
    /\ "Extended thread conversation" \in LabelsOf(Runs[2].text)
    /\ invocation.workflowResult.status = "success"
    /\ getWorkflowOutput(invocation.workflowResult).note

\* the messages of a source that come through the filter, when its fetch succeeded
KeptOf(answer, filters) ==
    IF FetchSucceeded(answer) THEN Kept(answer.messages, aggregation.currentTs, filters)
    ELSE <<>>
ThreadKept == IF Threaded THEN KeptOf(aggregation.threadAnswer, ThreadFilters) ELSE <<>>
ChannelKept == KeptOf(aggregation.channelAnswer, ChannelFilters)
IdsOf(files) == {files[i].id : i \in 1..Len(files)} \ {""}
IdsOn(messages) == UNION {IdsOf(messages[i].files) : i \in 1..Len(messages)}
EntriesWithId(id) == {i \in 1..Len(aggregation.allFiles) : aggregation.allFiles[i].id = id}
Merged == aggregation.pc = "merged"

\* C15: in the file set handed to the pipeline every file id attached to a
\* surviving thread message, a surviving channel message or the current
\* message appears exactly once, and no id appears twice.
C15_FileIdsUnique ==
    Merged =>
        /\ \A id \in IdsOf(aggregation.allFiles) : Cardinality(EntriesWithId(id)) = 1
        /\ \A id \in IdsOn(ThreadKept) \cup IdsOn(ChannelKept) \cup IdsOf(aggregation.currentFiles) :
                Cardinality(EntriesWithId(id)) = 1

\* file F1 is attached in the thread batch, in the channel batch and to the
\* current message
C15_Witness ==
    /\ Merged
    /\ "F1" \in IdsOn(ThreadKept) /\ "F1" \in IdsOn(ChannelKept)
    /\ "F1" \in IdsOf(aggregation.currentFiles)
    /\ Cardinality(EntriesWithId("F1")) = 1

\* the messages Slack sent for a source whose fetch succeeded
Answered(answer) == IF FetchSucceeded(answer) THEN answer.messages ELSE <<>>
ThreadAnswer == IF Threaded THEN Answered(aggregation.threadAnswer) ELSE <<>>
ChannelAnswer == Answered(aggregation.channelAnswer)
BotTexts(messages) == {messages[i].text : i \in {j \in 1..Len(messages) : messages[j].bot_id}}
TextsOf(lines) == {lines[i].text : i \in 1..Len(lines)}

\* the messages of a human author that pass the other tests of the filter
HumanKept(messages, filters) ==
    SelectSeq(messages, LAMBDA m :
        ~m.bot_id /\ Survives([m EXCEPT !.bot_id = FALSE], aggregation.currentTs, filters))

\* C16: a history message with bot_id gives no thread line and no channel line,
\* no file object of the file set is the one attached to it, and a file id it
\* carries is in the file set only when a surviving message of a human author
\* or the current message carries it too.
C16_BotMessagesContributeNothing ==
    /\ Returned =>
        /\ TextsOf(aggregation.result.thread) \cap BotTexts(ThreadAnswer) = {}
        /\ TextsOf(aggregation.result.channel) \cap BotTexts(ChannelAnswer) = {}
        /\ \A i \in 1..Len(aggregation.result.files) : aggregation.result.files[i].on # "bot"
        /\ IdsOf(aggregation.result.files)
                \subseteq IdsOn(HumanKept(ThreadAnswer, ThreadFilters))
                    \cup IdsOn(HumanKept(ChannelAnswer, ChannelFilters))
    /\ Merged =>
        /\ \A i \in 1..Len(aggregation.allFiles) : aggregation.allFiles[i].on # "bot"
        /\ IdsOf(aggregation.allFiles)
                \subseteq IdsOn(HumanKept(ThreadAnswer, ThreadFilters))
                    \cup IdsOn(HumanKept(ChannelAnswer, ChannelFilters))
                    \cup IdsOf(aggregation.currentFiles)

\* the thread answer holds the bot's message, with F2 on it alone and F1 on it
\* and on a human's message: the lines are the human's, F1 is in the set, F2 is not
C16_Witness ==
    /\ Merged /\ Threaded
    /\ BotTexts(ThreadAnswer) # {}
    /\ Len(aggregation.result.thread) > 0
    /\ "F1" \in IdsOf(aggregation.allFiles)
    /\ "F2" \notin IdsOf(aggregation.allFiles)

\* the number that the ts of the message behind a line stands for
KeyOfLine(line, messages) == SortKey(CHOOSE m \in Range(messages) : m.text = line.text)
Ascending(lines, messages) ==
    \A i, j \in 1..Len(lines) :
        i < j => KeyOfLine(lines[i], messages) <= KeyOfLine(lines[j], messages)

\* C17: the lines of each batch are in ascending order of the numbers their
\* messages' ts stand for, whatever the order of the answer: the message with
\* ts "9.5" comes before the one with ts "10.2".
C17_LinesInNumericOrder ==
    Returned =>
        /\ Ascending(aggregation.result.thread, ThreadAnswer)
        /\ Ascending(aggregation.result.channel, ChannelAnswer)

\* Slack answered with the message of ts "10.2" before the one of ts "9.5"
C17_Witness ==
    /\ Returned /\ Threaded
    /\ Len(ThreadAnswer) >= 2
    /\ ThreadAnswer[1].ts = <<"1", "0", ".", "2">> /\ ThreadAnswer[2].ts = <<"9", ".", "5">>
    /\ Len(aggregation.result.thread) = 2
    /\ aggregation.result.thread[1].text = "m1" /\ aggregation.result.thread[2].text = "m2"

\* the run that was started last, when nothing was logged after it
LastRun == invocation.log[Len(invocation.log)]
RunLogged ==
    /\ invocation.kind \in {"mention", "dm"}
    /\ Len(invocation.log) > 0
    /\ LastRun.op = "runWorkflow"
Descriptors == [i \in 1..Len(invocation.files) |-> describeFileForContext(invocation.files[i])]
ChannelHeaders == {"Channel conversation history", "Extended channel conversation history"}
ThreadHeaders == {"Thread conversation", "Extended thread conversation"}
\* the sections a text must have, by the kind of their header
Expected ==
    IF invocation.history.thread = <<>> /\ invocation.history.channel = <<>>
    THEN <<"text">>
    ELSE (IF invocation.history.channel # <<>> THEN <<"channel">> ELSE <<>>)
         \o (IF invocation.history.thread # <<>> THEN <<"thread">> ELSE <<>>)
         \o <<"current">>
SectionIs(section, kind) ==
    CASE kind = "text" ->
            /\ section.label = "" /\ section.lines = <<"do it">>
            /\ section.files = Descriptors
      [] kind = "current" ->
            /\ section.label = "Current message" /\ section.lines = <<"do it">>
            /\ section.files = Descriptors
      [] kind = "channel" ->
            /\ section.label \in ChannelHeaders
            /\ section.lines = invocation.history.channel
            /\ section.count = Len(section.lines) /\ section.count > 0
      [] OTHER ->
            /\ section.label \in ThreadHeaders
            /\ section.lines = invocation.history.thread
            /\ section.count = Len(section.lines) /\ section.count > 0

\* C18: the context text of a run is the text and the descriptors of the
\* current files alone when both batches are empty; otherwise it is the
\* sections of the non-empty batches, channel before thread, then the current
\* message, each header with the number of lines of its section, and no
\* header for an empty batch.
C18_OnlyNonEmptySections ==
    RunLogged =>
        /\ Len(LastRun.text) = Len(Expected)
        /\ \A i \in 1..Len(Expected) : SectionIs(LastRun.text[i], Expected[i])

\* no channel line and three thread lines: the thread section and the current
\* message only
C18_Witness ==
    /\ RunLogged
    /\ invocation.history.channel = <<>> /\ Len(invocation.history.thread) = 3
    /\ Len(LastRun.text) = 2
    /\ LastRun.text[1].label \in ThreadHeaders /\ LastRun.text[1].count = 3
    /\ LastRun.text[2].label = "Current message"

\* the failure notifications sent so far
FailureNotices ==
    {i \in 1..Len(invocation.log) :
        /\ invocation.log[i].op \in {"postMessage", "postEphemeralResponse"}
        /\ invocation.log[i].text.kind = "failed"}
\* the result carries a non-empty message, in its output or in its error
CarriesMessage(result) ==
    \/ result.carrier # "none" /\ result.output.message \notin {Absent, ""}
    \/ result.error \notin {Absent, ""}

Retryable(outcome) ==
    outcome.kind = "throw" \/ outcome.status = 429 \/ outcome.status >= 500
Posting == slackRequest.caller \in {"slackPost", "postEphemeralResponse"}
Sent == slackRequest.pc = "awaiting" \/ slackRequest.returned # "missing_slack_token"

\* C20: one slackGet makes at most 3 calls of fetch; one slackPost and one
\* postEphemeralResponse that sends its request makes one call of fetch and
\* no second one, also after a retryable status or a transport failure.
C20_PostsAreNotRetried ==
    /\ slackRequest.caller = "slackGet" => httpCalls <= 3
    /\ Posting =>
          /\ httpCalls <= 1
          /\ Sent => httpCalls = 1 /\ httpPc # "sleeping"

\* a post whose only attempt ended in a retryable status or a transport failure
C20_Witness ==
    /\ Posting
    /\ slackRequest.pc = "returned"
    /\ httpCalls = 1 /\ Len(httpLog) = 1
    /\ Retryable(httpLog[1])

\* the answers the reaction helpers ignore
Benign(method, answer) ==
    \/ method = "reactions.add" /\ answer = "already_reacted"
    \/ method = "reactions.remove" /\ answer \in {"no_reaction", "message_not_found"}
\* this step is a reaction call that Slack answers with an ignored error
BenignStep ==
    /\ ~Falsy(slackBotToken)
    /\ Len(invocation'.log) = Len(invocation.log) + 1
    /\ invocation'.log[Len(invocation'.log)].op \in {"addReaction", "removeReaction"}
    /\ Benign(invocation'.lastCall.method, invocation'.lastCall.answer)
\* where the flow stands after a successful call made at pc
AfterSuccess(v) ==
    CASE v.pc = "addProcessing" -> [pc |-> "history", added |-> TRUE]
      [] v.pc = "outcomeReaction" -> [pc |-> "outcomeMessage", added |-> v.processingReactionAdded]
      [] v.pc = "catchReaction" -> [pc |-> "catchMessage", added |-> v.processingReactionAdded]
      [] OTHER -> [pc |-> "end", added |-> v.processingReactionAdded]

\* C21: a reaction call that Slack answers with already_reacted (add) or with
\* no_reaction or message_not_found (remove) is not reported as an error and
\* does not throw, and the handler goes on exactly as after a successful call.
C21_BenignAnswersAreSuccess ==
    [][BenignStep =>
         /\ ~invocation'.lastCall.reported
         /\ invocation'.error = invocation.error
         /\ invocation'.pending = invocation.pending
         /\ invocation'.settled # "rejected"
         /\ invocation'.pc = AfterSuccess(invocation).pc
         /\ invocation'.processingReactionAdded = AfterSuccess(invocation).added
         /\ invocation'.pc = "end" => invocation'.settled = "resolved"]_vars

\* the hourglass was there already: the handler goes on and will remove it
C21_Witness ==
    /\ ~Falsy(slackBotToken)
    /\ invocation.lastCall.method = "reactions.add"
    /\ invocation.lastCall.answer = "already_reacted"
    /\ ~invocation.lastCall.reported
    /\ invocation.pc = "history" /\ invocation.processingReactionAdded

Missing == Falsy(sigIn.signature) \/ Falsy(sigIn.timestamp) \/ Falsy(sigIn.signingSecret)
Unparseable == ParseInt(sigIn.timestamp).nan
MaxAgeOf(in) ==
    IF in.maxAgeSeconds = Undefined THEN DEFAULT_MAX_AGE_SECONDS ELSE in.maxAgeSeconds
TooOld ==
    LET d == (sigIn.nowMs \div 1000) - ParseInt(sigIn.timestamp).val
    IN  d > MaxAgeOf(sigIn) \/ 0 - d > MaxAgeOf(sigIn)
WrongSignature ==
    sigIn.signature # buildSlackSignature(sigIn.rawBody, sigIn.timestamp, sigIn.signingSecret)
FirstFailure ==
    IF Missing THEN "Unauthorized"
    ELSE IF Unparseable THEN "Invalid timestamp"
    ELSE IF TooOld THEN "Request timeout"
    ELSE IF WrongSignature THEN "Invalid signature"
    ELSE "none"

\* C23: the verification reports the first check that fails, in the order
\* missing header or secret (Unauthorized), unparseable timestamp (Invalid
\* timestamp), staleness (Request timeout), wrong prefix or digest (Invalid
\* signature); every rejection has status 401.
C23_FirstFailingCheckIsReported ==
    sigOut # Pending =>
        /\ FirstFailure = "none" => sigOut = OkResult
        /\ FirstFailure # "none" => sigOut = [ok |-> FALSE, status |-> 401, error |-> FirstFailure]

\* an unparseable timestamp under a signature that does not match either
C23_Witness ==
    /\ sigOut = [ok |-> FALSE, status |-> 401, error |-> "Invalid timestamp"]
    /\ ~Missing /\ Unparseable /\ WrongSignature

\* the attempts that ended because the caller's signal had fired
CallerAbortedAttempts ==
    {i \in 1..Len(httpLog) : httpLog[i].kind = "throw" /\ httpLog[i].error \in AbortReasons}
\* the attempts that ended because their own timeout fired
TimedOutAttempts ==
    {i \in 1..Len(httpLog) : httpLog[i] = Thrown(AbortError)}
\* the caller's signal fires in this step, while an attempt is in flight
CallerFiresInFlight == httpPc = "fetching" /\ ~callerAborted /\ callerAborted'

\* C24: with a caller's signal, the attempt in flight is aborted in the very
\* step in which the caller's signal fires, with the caller's reason, and an
\* attempt can still be aborted by its own timeout; without a caller's signal
\* no attempt is ever aborted by anything but its timeout.
C24_CallerSignalComposesWithTimeout ==
    /\ [](~httpIn.callerSignal => ~callerAborted /\ CallerAbortedAttempts = {})
    /\ [](callerAborted => httpIn.callerSignal)
    /\ [][CallerFiresInFlight =>
            /\ httpIn.callerSignal
            /\ httpPc' # "fetching"
            /\ Len(httpLog') = Len(httpLog) + 1
            /\ Len(httpLog') \in CallerAbortedAttempts'
            /\ attempt \notin httpTimers']_vars

\* with a caller's signal supplied, one attempt was aborted by its timeout and
\* the next one by the caller's signal
C24_Witness ==
    /\ httpIn.callerSignal
    /\ Len(httpLog) = 2
    /\ 1 \in TimedOutAttempts
    /\ 2 \in CallerAbortedAttempts

\* an attempt ends in this step because its timeout fired
TimesOut ==
    /\ Len(httpLog') = Len(httpLog) + 1
    /\ httpLog'[Len(httpLog')] = Thrown(AbortError)

\* C25: the attempt in flight has a timer of its own, armed when it began, and
\* no other timer is armed: the timer of a finished attempt is cleared and
\* cannot abort a later attempt; an attempt aborted by its timeout is followed
\* by the backoff sleep and a further attempt while attempts remain, and ends
\* the call with the abort error when none remains.
C25_TimeoutPerAttempt ==
    /\ [](/\ httpPc = "fetching" => httpTimers = {attempt}
          /\ httpPc # "fetching" => httpTimers = {})
    /\ [][TimesOut =>
            /\ httpPc = "fetching" /\ attempt \in httpTimers
            /\ attempt < httpIn.retries
                 => /\ httpPc' = "sleeping"
                    /\ Len(httpSlept') = Len(httpSlept) + 1
            /\ attempt = httpIn.retries
                 => httpPc' = "thrown" /\ httpResult' = Thrown(AbortError)]_vars

\* two attempts in a row were aborted, each by its own timeout, and a third
\* one is in flight with its own timer
C25_Witness ==
    /\ Len(httpLog) = 2
    /\ TimedOutAttempts = {1, 2}
    /\ httpPc = "fetching" /\ attempt = 2 /\ httpTimers = {2}

\* the message of the universe behind a line
MessageOf(line) == CHOOSE m \in MessageUniverse : m.text = line.text
ThreadLinesExcludeCurrent ==
    \A i \in 1..Len(aggregation.result.thread) :
        MessageOf(aggregation.result.thread[i]).ts # aggregation.currentTs
ChannelLinesExcludeThreads ==
    \A i \in 1..Len(aggregation.result.channel) :
        MessageOf(aggregation.result.channel[i]).thread_ts = NoTs

\* C26: in every aggregation, with or without a thread key, no thread line is
\* the triggering message and no channel line is a message that belongs to a
\* thread.
C26_BatchFilters ==
    Returned => ThreadLinesExcludeCurrent /\ ChannelLinesExcludeThreads

\* the requests an aggregation is to make, by the claim
RequestsFor(threaded, windowSize) ==
    IF threaded
    THEN <<[method |-> "conversations.replies", limit |-> windowSize],
           [method |-> "conversations.history", limit |-> windowSize \div 2]>>
    ELSE <<[method |-> "conversations.history", limit |-> windowSize]>>

\* C27: for every window size an aggregation with a thread key asks the thread
\* for windowSize messages and the channel for floor(windowSize/2); one
\* without a thread key makes a single request, to the channel, for windowSize.
C27_RequestedWindow ==
    (Returned /\ ~Falsy(aggregation.token))
        => aggregation.requests = RequestsFor(Threaded, aggregation.limit)

\* the files in processing order: those of the surviving thread messages, of
\* the surviving channel messages, of the current message
RECURSIVE FilesOn(_)
FilesOn(messages) ==
    IF messages = <<>> THEN <<>> ELSE Head(messages).files \o FilesOn(Tail(messages))
ProcessingOrder == FilesOn(ThreadKept) \o FilesOn(ChannelKept) \o aggregation.currentFiles
\* the identity of a file: its id, or its name and mimetype when it has none
Identity(file) ==
    IF file.id # "" THEN <<"id", file.id>> ELSE <<"name", file.name, file.mimetype>>
FirstOccurrence(files, identity) ==
    files[CHOOSE i \in 1..Len(files) :
            /\ Identity(files[i]) = identity
            /\ \A j \in 1..(i - 1) : Identity(files[j]) # identity]

\* C28: the file object the final file set holds for an identity is the first
\* occurrence of that identity in processing order.
C28_FirstOccurrenceWins ==
    Merged =>
        \A i \in 1..Len(aggregation.allFiles) :
            aggregation.allFiles[i]
                = FirstOccurrence(ProcessingOrder, Identity(aggregation.allFiles[i]))

\* the file set represents a file: an entry has its identity
Represented(file, fileSet) ==
    \E i \in 1..Len(fileSet) : Identity(fileSet[i]) = Identity(file)
EntriesOf(identity, fileSet) == {i \in 1..Len(fileSet) : Identity(fileSet[i]) = identity}
HistoryFiles == FilesOn(ThreadKept) \o FilesOn(ChannelKept)

\* C29: every file attached to a surviving history message is represented in
\* the file set the aggregation returns and in the final file set, a file
\* without id by its name and mimetype; no identity has two entries.
C29_EveryHistoryFileRepresented ==
    /\ Returned =>
         \A i \in 1..Len(HistoryFiles) : Represented(HistoryFiles[i], aggregation.result.files)
    /\ Merged =>
         /\ \A i \in 1..Len(HistoryFiles) : Represented(HistoryFiles[i], aggregation.allFiles)
         /\ \A i \in 1..Len(aggregation.allFiles) :
                Cardinality(EntriesOf(Identity(aggregation.allFiles[i]), aggregation.allFiles)) = 1

\* the header is a decimal number: digits only, after optional white space and
\* an optional sign
IsNumber(s) ==
    LET t == DropWhite(s)
        u == IF t # <<>> /\ Head(t) \in {"-", "+"} THEN Tail(t) ELSE t
    IN  u # <<>> /\ \A i \in 1..Len(u) : IsDigit(u[i])

\* C30: a request that has its signature, timestamp and secret and whose
\* timestamp header is not a number, also one that starts with digits and goes
\* on with other characters, is rejected with 'Invalid timestamp'.
C30_NonNumericTimestampRejected ==
    (sigOut # Pending /\ ~Missing /\ ~IsNumber(sigIn.timestamp))
        => sigOut = Rejected("Invalid timestamp")

\* the entries a step takes out of the store although they have not expired
\* at the time of the call
LiveBefore == SelectSeq(entries, LAMBDA e : e.expiresAt > storeOp'.now)
RemovedLive == {e \in Range(LiveBefore) : e.key \notin KeysOf(entries')}

\* C31: right after has(k, now) or add(k, now) no stored entry has
\* expiresAt <= now; and a call removes an entry with expiresAt > now only
\* when it is add on a store at capacity, and then only the oldest-inserted one.
C31_OnlyExpiredOrOldestRemoved ==
    /\ [](storeOp.op \in {"has", "add"}
            => \A i \in 1..Len(entries) : entries[i].expiresAt > storeOp.now)
    /\ [][RemovedLive # {}
            => /\ storeOp'.op = "add"
               /\ Len(LiveBefore) >= maxSize
               /\ RemovedLive = {LiveBefore[1]}]_vars

\* C31 (amended): right after has(k, now) no stored entry has expiresAt <= now;
\* right after add(k, now) the only entry that can have expiresAt <= now is
\* the one just added, when ttlMs is 0; and a call removes an entry with
\* expiresAt > now only when it is add on a store at capacity, and then only
\* the oldest-inserted one.
C31_NoExpiredEntryButTheOneAdded ==
    /\ [](storeOp.op = "has"
            => \A i \in 1..Len(entries) : entries[i].expiresAt > storeOp.now)
    /\ [](storeOp.op = "add"
            => \A i \in 1..Len(entries) :
                  entries[i].expiresAt <= storeOp.now
                      => /\ entries[i].key = storeOp.key
                         /\ entries[i].expiresAt = storeOp.now
                         /\ ttlMs = 0)
    /\ [][RemovedLive # {}
            => /\ storeOp'.op = "add"
               /\ Len(LiveBefore) >= maxSize
               /\ RemovedLive = {LiveBefore[1]}]_vars

\* an add on a full store has just evicted the oldest entry, which had not
\* expired, and every entry left is unexpired
C31_Witness ==
    /\ storeOp.op = "add"
    /\ ttlMs >= 1
    /\ evicted # {}
    /\ Len(entries) = maxSize
    /\ \A i \in 1..Len(entries) : entries[i].expiresAt > storeOp.now

OwnTexts(c) == {m.text : m \in MessagesOf(c)}
LinesOf(a) == Range(a.result.thread) \cup Range(a.result.channel)
FilesHeldBy(a) ==
    Range(a.result.files) \cup Range(a.allFiles) \cup Range(MapValues(a.fileMap))
Isolated(a) ==
    /\ \A line \in LinesOf(a) : line.text \in OwnTexts(a.channel)
    /\ \A file \in FilesHeldBy(a) :
            file.on \in OwnTexts(a.channel) \cup {TriggerTag(a.channel)}

\* C32: when two aggregations for different requests run interleaved, the
\* lines and the files each one holds and returns come only from the
\* messages fetched for its own request or from its own triggering message.
C32_AggregationsShareNothing == Isolated(aggregation) /\ Isolated(suspended)

\* both calls wait for their channel fetch, each having gathered its own copy
\* of the file with the same id from its thread
C32_Witness ==
    /\ aggregation.pc = "channel" /\ suspended.pc = "channel"
    /\ aggregation.channel # suspended.channel
    /\ aggregation.result.thread # <<>> /\ suspended.result.thread # <<>>
    /\ \E i \in 1..Len(aggregation.fileMap), j \in 1..Len(suspended.fileMap) :
            aggregation.fileMap[i].key = suspended.fileMap[j].key

ReAddsLiveKey ==
    /\ storeOp'.op = "add"
    /\ \E i \in 1..Len(entries) :
            entries[i].key = storeOp'.key /\ entries[i].expiresAt > storeOp'.now

LastAttemptEnded == Len(httpLog) = httpIn.retries + 1
LastOutcome == httpLog[Len(httpLog)]

\* C35: when the last permitted attempt receives a response, fetchWithRetry
\* returns that response whatever its status (429 and 5xx included) and does
\* not throw; it throws only when the last permitted attempt itself threw.
C35_LastResponseIsReturned ==
    /\ (LastAttemptEnded /\ LastOutcome.kind = "response")
            => /\ httpPc = "returned"
               /\ httpResult = Response(LastOutcome.status)
    /\ httpPc = "thrown"
            => /\ httpResult.kind = "throw"
               /\ LastAttemptEnded
               /\ LastOutcome.kind = "throw"

\* after retries the last permitted attempt was answered with a status that
\* would be retried, and the call returned that response
C35_Witness ==
    /\ httpIn.retries >= 1
    /\ LastAttemptEnded
    /\ LastOutcome.kind = "response"
    /\ shouldRetryStatus(LastOutcome.status)
    /\ httpPc = "returned"

\* C36: once the caller's abort signal has fired, fetchWithRetry starts no
\* further fetch attempt and no further backoff sleep.
C36_NoAttemptAfterCallerAbort ==
    [][callerAborted => httpCalls' = httpCalls /\ httpSlept' = httpSlept]_vars

CallsOf(op) == Len(SelectSeq(invocation.log, LAMBDA call : call.op = op))
Finished == invocation.pc = "end"

\* C37: on every path (task created, failure result, thrown error) one
\* invocation of processAppMentionAsync or processDirectMessageAsync calls
\* postMessage exactly once, and one invocation of processTaskAsync calls
\* postEphemeralResponse exactly once.
C37_ExactlyOneNotification ==
    /\ CallsOf("postMessage") <= 1
    /\ CallsOf("postEphemeralResponse") <= 1
    /\ Finished /\ invocation.kind \in {"mention", "dm"}
            => CallsOf("postMessage") = 1 /\ CallsOf("postEphemeralResponse") = 0
    /\ Finished /\ invocation.kind = "task"
            => CallsOf("postEphemeralResponse") = 1 /\ CallsOf("postMessage") = 0

\* a mention whose workflow threw has ended: the error was posted once, after
\* a post to Slack had failed
C37_Witness ==
    /\ Finished
    /\ invocation.kind = "mention"
    /\ invocation.error # NoCaught
    /\ "catch" \in invocation.failedIn
    /\ CallsOf("postMessage") = 1

IsHourglass(call, op) == call.op = op /\ call.name = "hourglass_flowing_sand"
IsOutcomeReaction(call) == call.op = "addReaction" /\ call.name \in {"white_check_mark", "x"}
OutcomeReactions == Len(SelectSeq(invocation.log, IsOutcomeReaction))
LogIndex == 1..Len(invocation.log)

\* C38: in processAppMentionAsync the hourglass reaction is requested before
\* any history fetch or workflow run, exactly one outcome reaction
\* (white_check_mark or x) is requested per invocation, and the removal of
\* the hourglass is requested after the outcome message on every path, also
\* when the workflow throws.
C38_ReactionsFrameTheRun ==
    invocation.kind = "mention" =>
        /\ invocation.log # <<>> => IsHourglass(invocation.log[1], "addReaction")
        /\ OutcomeReactions <= 1
        /\ \A i, j \in LogIndex :
                /\ IsHourglass(invocation.log[i], "removeReaction")
                /\ invocation.log[j].op = "postMessage"
                => j < i
        /\ Finished =>
                /\ OutcomeReactions = 1
                /\ IsHourglass(invocation.log[Len(invocation.log)], "removeReaction")
                /\ invocation.log[Len(invocation.log) - 1].op = "postMessage"
                /\ CallsOf("removeReaction") = 1

\* a mention whose workflow threw has ended: hourglass first, one x, the
\* error message, and the removal of the hourglass last
C38_Witness ==
    /\ invocation.kind = "mention"
    /\ Finished
    /\ invocation.error \in WorkflowThrows
    /\ CallsOf("runWorkflow") = 1
    /\ OutcomeReactions = 1
    /\ IsHourglass(invocation.log[Len(invocation.log)], "removeReaction")

\* the lines the triggering message would make
TriggerLines == {Line(m) : m \in {x \in MessageUniverse : x.ts = CurrentTs}}
ReturnedLines == Range(aggregation.result.thread) \cup Range(aggregation.result.channel)
\* the aggregation of an app mention posted at the top level of a channel:
\* the thread key is the ts of the mention itself
TopLevelMention == aggregation.threadTs = aggregation.currentTs

\* C39: for an app mention the triggering message (the one whose ts is the
\* event's ts) never appears as a line of the thread section or of the
\* channel section, also when the mention is a top-level channel message and
\* the thread key defaults to its own ts.  (The triggering message of the
\* model is a top-level message, so the case checked is that mention.)
C39_TriggerIsNoHistoryLine ==
    Returned /\ TopLevelMention => ReturnedLines \cap TriggerLines = {}

AuthoredByBot(d) ==
    /\ IsEventDelivery(d)
    /\ JSONparse(d.request.rawBody).hasEvent
    /\ JSONparse(d.request.rawBody).event.bot_id

\* C40: an inbound event authored by an automated actor (bot_id present)
\* never starts the task pipeline, whether it arrives as a message event or
\* as an app_mention event.
C40_BotEventsStartNothing ==
    \A i \in Received : AuthoredByBot(deliveries[i]) => ~PipelineStarted(deliveries[i])

====
